---------------------------- MODULE Spec2Model ----------------------------
(***************************************************************************)
(* A model of catid/loraftp: file transfer over a Waveshare LoRa HAT.      *)
(*                                                                         *)
(*   SpecFrame   the driver's UART framing (Waveshare::Send / Receive)     *)
(*   SpecFill    Waveshare::Receive on a stream that never ends, with the  *)
(*               receive buffer filled to its 240 bytes                    *)
(*   SpecFillFair  SpecFill with bytes that keep arriving and a loop that  *)
(*               keeps calling Receive                                     *)
(*   SpecSend    Waveshare::Send alone, up to the largest payload          *)
(*   SpecExpand  the 8 -> 32 bit block counter expansion                   *)
(*   Spec        the receiving engine (FileReceiver::Loop, OnFileInfo,     *)
(*               OnBlock) fed with the packets a sender prepares           *)
(*   SpecInfo    the receiving engine with malformed info packets as well  *)
(*   SpecEmit    the data packets FileSender::Loop hands to its Uplink     *)
(*   SpecReplay  the receiving engine hearing a sender from its first      *)
(*               block on, the info packet after any number of blocks      *)
(*   SpecSerial  RawSerialPort::Initialize                                 *)
(*   SpecDriver  the calls of the Waveshare driver, with the module's      *)
(*               registers, the M0/M1 lines and the serial port            *)
(*   SpecLife    Initialize, Shutdown and destruction of a FileSender or   *)
(*               FileReceiver, and the background task they start          *)
(*   SpecLifeFair  SpecLife with a scheduler that lets every task run      *)
(*                                                                         *)
(* 32-bit unsigned values are records [hi, lo] of two 16-bit halves, so    *)
(* that arithmetic wraps at 2^32 as uint32_t does.                         *)
(***************************************************************************)
EXTENDS Integers, Sequences, FiniteSets, TLC

VARIABLES
    build,        \* which FastCrc32 the build selected: "armv8" or "fallback"
    txd,          \* the sending host's Waveshare object
    rxd,          \* the receiving host's Waveshare object
    line,         \* bytes on their way into the receiving host's UART queue
    lineLog,      \* history: what was put on the line, segment by segment
    lastSend,     \* history: what the last Waveshare::Send call did
    delivered,    \* history: payloads handed to the Receive callback
    lastRecv,     \* history: what the last Waveshare::Receive call did
    paused,       \* history: some Receive call returned with bytes left buffered
    rxFailed,     \* Receive returned false: the owning loop has stopped
    ctr,          \* SpecExpand: the arguments and the result of one expansion
    lib,          \* whether the wirehair in use checks a block's size
    compensate,   \* whether data packets carry a filler byte ahead of the block
    beyond,       \* whether the byte read past a data packet is the block's last
    snd,          \* the FileSender after Initialize
    rcv,          \* the FileReceiver object, with the history of its OnRecv calls
    idle,         \* seconds since LastReceiveUsec; IdleCap for more, or when no file is known
    running,      \* FileReceiver::Loop has not left its while loop
    fed,          \* history: number of data and valid info packets dispatched
    restarts,     \* history: number of times the sender was started again
    step,         \* history: the last iteration that handled a packet or let time pass
    run,          \* history: the transfer attempt under way
    loop,         \* SpecEmit, SpecReplay: the locals of FileSender::Loop, with what it last sent
    hat,          \* SpecDriver: the driver object, the module and lines it drives, its UART
    feed,         \* SpecFill: what the latest Receive parsed, and the byte under watch
    port,         \* SpecSerial: a RawSerialPort object
    call,         \* SpecSerial: the arguments and the result of Initialize on it
    role,         \* SpecLife: which engine the object is, "sender" or "receiver"
    obj,          \* the FileSender or FileReceiver object, as far as its lifecycle goes
    tasks,        \* the background tasks started for it, each with its position
    main,         \* the thread that calls Initialize and Shutdown: its position
    boot,         \* history: what the last Uplink.Initialize met and returned
    tally,        \* history: joins, close() calls and codec releases so far
    hazards,      \* history: accesses to the driver or the codec that raced
    aborted       \* std::terminate was called: the process is gone

frameVars == <<build, txd, rxd, line, lineLog, lastSend, delivered, lastRecv, paused, rxFailed>>

engineVars == <<lib, compensate, beyond, snd, rcv, idle, running, fed, restarts, step, run>>

hostVars == <<port, call, role, obj, tasks, main, boot, tally, hazards, aborted>>

vars == <<frameVars, ctr, engineVars, loop, hat, feed, hostVars>>

-----------------------------------------------------------------------------
(* Bounds of the model *)

\* Longest payload handed to Send (apart from the one oversize payload)
MaxPayloadLen == 1
\* Number of Send calls in a run
MaxSends == 2
\* Number of junk bytes the line may carry ahead of the first frame
MaxJunk == 1
\* Largest partial read of the UART queue (a read may also take all of it)
MaxChunk == 2
\* Data packets and valid info packets dispatched to the receiver in a run
MaxPackets == 4
\* Times the sender is started again with another file
MaxRestarts == 1
\* Calls of Initialize and Shutdown made on an engine object before its destructor
MaxCalls == 3

\* Data packets a FileSender's loop sends
MaxEmits == 33

\* SpecReplay: data packets the sender has sent in all
MaxBlocks == 130

\* SpecReplay: info packets the sender has sent in all
MaxInfos == 2

\* SpecDriver: calls made on the driver
MaxDriverCalls == 4

\* SpecDriver: bytes that arrive in the serial port
MaxArrivals == 2

\* SpecFill: bytes that may wait in the UART queue when more arrive
MaxQueued == 0

\* Byte values payloads are made of
PayloadBytes == {0, 3}

\* Byte values of line noise: a possible length, and too large for a length
JunkBytes == {3, 250}

-----------------------------------------------------------------------------
(* Program constants *)

kPacketMaxBytes == 235
kRecvBufferBytes == 240
kMonitorAddress == 65535
kSenderAddr == 1

\* SpecFill: the distance between length-like bytes in a payload
Stride == kPacketMaxBytes \div 20

\* SpecFill: where a frame that arrives in two pieces is cut
HeadLen == kRecvBufferBytes \div 2

-----------------------------------------------------------------------------
(* Bit arithmetic on bounded naturals *)

RECURSIVE XorN(_, _, _)
XorN(a, b, n) ==
    IF n = 0 THEN 0
    ELSE (((a % 2) + (b % 2)) % 2) + 2 * XorN(a \div 2, b \div 2, n - 1)

U32(h, l) == [hi |-> h, lo |-> l]

U32FromNat(n) == U32(n \div 65536, n % 65536)

XorU32(a, b) == U32(XorN(a.hi, b.hi, 16), XorN(a.lo, b.lo, 16))

ShiftRightU32(a, k) ==
    LET p == 2 ^ k
    IN  U32(a.hi \div p, (a.lo \div p) + (a.hi % p) * (65536 \div p))

NotU32(a) == U32(65535 - a.hi, 65535 - a.lo)

\* uint32_t addition of a small signed offset, wrapping at 2^32
AddU32(a, off) ==
    LET l == a.lo + off
        c == IF l >= 0 THEN l \div 65536 ELSE -((65535 - l) \div 65536)
    IN  U32((a.hi + c) % 65536, l - c * 65536)

-----------------------------------------------------------------------------
(* tools.hpp / tools.cpp *)

WriteU32_LE_BigEndianBug(value) ==
    << (value.hi \div 256), (value.hi % 256), (value.lo \div 256), (value.lo % 256) >>

WriteU32_LE(value) ==
    << (value.lo % 256), (value.lo \div 256), (value.hi % 256), (value.hi \div 256) >>

\* data is a byte sequence, at is the 1-based index of the first byte
ReadU32_LE(data, at) ==
    U32(data[at + 3] * 256 + data[at + 2], data[at + 1] * 256 + data[at])

RECURSIVE LutStep(_, _, _)
LutStep(poly, c, k) ==
    IF k = 0 THEN c
    ELSE LutStep(poly,
                 IF c.lo % 2 = 1 THEN XorU32(poly, ShiftRightU32(c, 1))
                                 ELSE ShiftRightU32(c, 1),
                 k - 1)

BytesOfU32(v) == << (v.lo % 256), (v.lo \div 256), (v.hi % 256), (v.hi \div 256) >>

\* a ^ b on bytes, tabulated
Xor8 == [a \in 0..255 |-> [b \in 0..255 |-> XorN(a, b, 8)]]

\* The table of the fallback build (reflected polynomial 0xEDB88320), each
\* entry as its four bytes, least significant first
CRC32_LUT == [i \in 0..255 |-> BytesOfU32(LutStep(U32(60856, 33568), U32(0, i), 8))]

\* What the ARMv8 crc32c instructions compute: reflected polynomial 0x82F63B78
CRC32C_LUT == [i \in 0..255 |-> BytesOfU32(LutStep(U32(33526, 15224), U32(0, i), 8))]

\* One round of the loop: crc = (crc >> 8) ^ LUT[(uint8_t)(crc ^ byte)], with
\* crc as its four bytes, least significant first
CrcStep(lut, crc, byte) ==
    LET e == lut[Xor8[crc[1]][byte]]
    IN  << Xor8[crc[2]][e[1]], Xor8[crc[3]][e[2]], Xor8[crc[4]][e[3]], e[4] >>

\* The loop over data[from..to], split in halves to keep the evaluation
\* shallow; each half is computed once and then named
RECURSIVE CrcLoop(_, _, _, _, _)
CrcLoop(lut, crc, data, from, to) ==
    IF from > to THEN crc
    ELSE IF from = to THEN CrcStep(lut, crc, data[from])
    ELSE LET mid == (from + to) \div 2
         IN  CHOOSE done \in
                 {IF Len(sofar) = 4 THEN CrcLoop(lut, sofar, data, mid + 1, to) ELSE sofar :
                      sofar \in {CrcLoop(lut, crc, data, from, mid)}} : TRUE

FastCrc32(b, data) ==
    CHOOSE value \in
        {NotU32(ReadU32_LE(crc, 1)) :
             crc \in {CrcLoop(IF b = "armv8" THEN CRC32C_LUT ELSE CRC32_LUT,
                              <<255, 255, 255, 255>>, bytes, 1, Len(bytes)) :
                          bytes \in {data}}} : TRUE

-----------------------------------------------------------------------------
(* Counter.h: Counter32, the block counter of the receiver *)

ExpandAlwaysForward(recent, smaller) ==
    AddU32(recent, (smaller - (recent.lo % 256)) % 256)

\* The 32-bit value with low 8 bits `smaller` nearest to `recent`; of two
\* equally near values the one ahead of `recent`
ExpandFromTruncated(recent, smaller) ==
    LET gap == (smaller - (recent.lo % 256)) % 256
    IN  IF gap <= 128 THEN AddU32(recent, gap) ELSE AddU32(recent, gap - 256)

NoExpansion == [last |-> U32(0, 0), low8 |-> 0, done |-> FALSE, result |-> U32(0, 0)]

-----------------------------------------------------------------------------
(* waveshare.cpp: the driver object *)

NewWaveshare(transmit_addr) ==
    [ InConfigMode    |-> FALSE,
      CurrentAddress  |-> transmit_addr,
      TransmitAddress |-> transmit_addr,
      RecvBuffer      |-> << >>,
      RecvOffsetBytes |-> 0 ]

\* cfg is what the configuration exchange with the module does: "ok" or "fail"
SetAddress(d, addr, cfg) ==
    IF d.CurrentAddress = addr
    THEN [d |-> d, ok |-> TRUE]
    ELSE IF cfg # "ok"
         THEN [d |-> [d EXCEPT !.InConfigMode = TRUE], ok |-> FALSE]
         ELSE [d |-> [d EXCEPT !.InConfigMode = FALSE, !.CurrentAddress = addr],
               ok |-> TRUE]

\* The frame Send builds in frame[240]
Frame(b, data) ==
    << Len(data) % 256 >> \o WriteU32_LE(FastCrc32(b, data)) \o data

\* wr is what Serial.Write does: "ok", or "error" (nothing is written)
Send(b, d, data, cfg, wr) ==
    IF Len(data) > kPacketMaxBytes
    THEN [d |-> d, ok |-> FALSE, frame |-> << >>, written |-> << >>]
    ELSE LET sa == SetAddress(d, d.TransmitAddress, cfg)
             frame == Frame(b, data)
         IN  IF ~sa.ok
             THEN [d |-> sa.d, ok |-> FALSE, frame |-> << >>, written |-> << >>]
             ELSE [d |-> sa.d, ok |-> wr = "ok", frame |-> frame,
                   written |-> IF wr = "ok" THEN frame ELSE << >>]

\* q is the UART queue, available what FIONREAD reports, readOk whether
\* Serial.Read returns the bytes asked for
FillRecvBuffer(d, q, available, readOk) ==
    LET remaining_buffer_bytes == kRecvBufferBytes - d.RecvOffsetBytes
        read_bytes == IF available > remaining_buffer_bytes
                      THEN remaining_buffer_bytes ELSE available
        reset == [d EXCEPT !.RecvOffsetBytes = 0, !.RecvBuffer = << >>]
    IN  IF remaining_buffer_bytes <= 0 THEN [d |-> d, q |-> q, ok |-> TRUE]
        ELSE IF available < 0 THEN [d |-> reset, q |-> q, ok |-> FALSE]
        ELSE IF available = 0 THEN [d |-> d, q |-> q, ok |-> TRUE]
        ELSE IF ~readOk THEN [d |-> reset, q |-> q, ok |-> FALSE]
        ELSE [d |-> [d EXCEPT !.RecvBuffer = @ \o SubSeq(q, 1, read_bytes),
                              !.RecvOffsetBytes = @ + read_bytes],
              q |-> SubSeq(q, read_bytes + 1, Len(q)),
              ok |-> TRUE]

\* A scan that takes a frame to be complete one byte later than it is
RECURSIVE ScanNeedsOneMore(_, _, _, _)
ScanNeedsOneMore(b, buf, start_offset, out) ==
    LET buffer_bytes == Len(buf)
        packet_bytes == buf[start_offset + 1]
        available_bytes == buffer_bytes - start_offset
        payload == SubSeq(buf, start_offset + 6, start_offset + 5 + packet_bytes)
    IN  IF ~(start_offset + 5 < buffer_bytes)
        THEN [start_offset |-> start_offset, out |-> out]
        ELSE IF packet_bytes <= 0 \/ packet_bytes > kPacketMaxBytes
        THEN ScanNeedsOneMore(b, buf, start_offset + 1, out)
        ELSE IF available_bytes < 6 + packet_bytes
        THEN [start_offset |-> start_offset, out |-> out]
        ELSE IF ReadU32_LE(buf, start_offset + 2) # FastCrc32(b, payload)
        THEN ScanNeedsOneMore(b, buf, start_offset + 1, out)
        ELSE ScanNeedsOneMore(b, buf, start_offset + 4 + packet_bytes + 1, Append(out, payload))

\* The scan loop of Receive; start_offset counts from 0 as in the source.
\* Returns the final start_offset and the payloads given to the callback.
RECURSIVE Scan(_, _, _, _)
Scan(b, buf, start_offset, out) ==
    LET buffer_bytes == Len(buf)
        packet_bytes == buf[start_offset + 1]
        available_bytes == buffer_bytes - start_offset
        payload == SubSeq(buf, start_offset + 6, start_offset + 5 + packet_bytes)
    IN  IF ~(start_offset + 5 < buffer_bytes)
        THEN [start_offset |-> start_offset, out |-> out]
        ELSE IF packet_bytes <= 0 \/ packet_bytes > kPacketMaxBytes
        THEN Scan(b, buf, start_offset + 1, out)
        ELSE IF available_bytes < 5 + packet_bytes
        THEN [start_offset |-> start_offset, out |-> out]
        ELSE IF ReadU32_LE(buf, start_offset + 2) # FastCrc32(b, payload)
        THEN Scan(b, buf, start_offset + 1, out)
        ELSE Scan(b, buf, start_offset + 4 + packet_bytes + 1, Append(out, payload))

\* An end of Receive that sets the count and leaves the bytes where they are
CompactWithoutMove(d, start_offset) ==
    IF start_offset > 0
    THEN [d EXCEPT !.RecvOffsetBytes = Len(d.RecvBuffer) - start_offset,
                   !.RecvBuffer = SubSeq(@, 1, Len(@) - start_offset)]
    ELSE d

CompactDropsAll(d, start_offset) ==
    [d EXCEPT !.RecvOffsetBytes = 0, !.RecvBuffer = << >>]

\* The memmove that ends Receive
Compact(d, start_offset) ==
    IF start_offset > 0
    THEN [d EXCEPT !.RecvOffsetBytes = Len(d.RecvBuffer) - start_offset,
                   !.RecvBuffer = SubSeq(@, start_offset + 1, Len(@))]
    ELSE d

Receive(b, d, q, cfg, available, readOk) ==
    LET sa == SetAddress(d, kMonitorAddress, cfg)
        fill == FillRecvBuffer(sa.d, q, available, readOk)
        scan == Scan(b, fill.d.RecvBuffer, 0, << >>)
    IN  IF ~sa.ok
        THEN [d |-> sa.d, q |-> q, ok |-> FALSE, out |-> << >>, start_offset |-> 0]
        ELSE IF ~fill.ok
        THEN [d |-> fill.d, q |-> q, ok |-> FALSE, out |-> << >>, start_offset |-> 0]
        ELSE [d |-> Compact(fill.d, scan.start_offset), q |-> fill.q, ok |-> TRUE,
              out |-> scan.out, start_offset |-> scan.start_offset]

Largest(a, c) == IF a > c THEN a ELSE c

\* What the scan loop of Receive reads of RecvBuffer from start_offset on:
\* top is the highest index (from 0) it has read, -1 for none, and skipped
\* the number of positions it has passed over with `continue`
RECURSIVE ScanReads(_, _, _, _)
ScanReads(b, buf, start_offset, seen) ==
    LET buffer_bytes == Len(buf)
        packet_bytes == buf[start_offset + 1]
        available_bytes == buffer_bytes - start_offset
        payload == SubSeq(buf, start_offset + 6, start_offset + 5 + packet_bytes)
        length == [seen EXCEPT !.top = Largest(@, start_offset)]
        whole == [seen EXCEPT !.top = Largest(@, start_offset + 4 + packet_bytes)]
    IN  IF ~(start_offset + 5 < buffer_bytes)
        THEN seen
        ELSE IF packet_bytes <= 0 \/ packet_bytes > kPacketMaxBytes
        THEN ScanReads(b, buf, start_offset + 1, [length EXCEPT !.skipped = @ + 1])
        ELSE IF available_bytes < 5 + packet_bytes
        THEN length
        ELSE IF ReadU32_LE(buf, start_offset + 2) # FastCrc32(b, payload)
        THEN ScanReads(b, buf, start_offset + 1, [whole EXCEPT !.skipped = @ + 1])
        ELSE ScanReads(b, buf, start_offset + 4 + packet_bytes + 1, whole)

\* feed before any Receive: pre is the buffer the latest Receive parsed, top
\* and skipped what its scan read and passed over, out what it delivered;
\* mark is the place (from 1) in RecvBuffer followed by the UART queue of
\* the byte under watch, 0 when none is; stream names the pieces that arrive,
\* round and round, and next is the one to arrive
FeedAtRest ==
    [pre |-> << >>, top |-> -1, skipped |-> 0, out |-> << >>, start_offset |-> 0,
     ok |-> TRUE, mark |-> 0, stream |-> << >>, next |-> 1]

-----------------------------------------------------------------------------
(* linux_serial.cpp: RawSerialPort *)

\* The baud rates of BaudrateToBaud's switch, in its order
Baudrates ==
    << 50, 75, 110, 134, 150, 200, 300, 600, 1200, 1800, 2400, 4800, 9600, 19200,
       38400, 57600, 115200, 230400, 460800, 500000, 576000, 921600, 1000000,
       1152000, 1500000, 2000000, 2500000, 3000000, 3500000, 4000000 >>

\* The termios speed of a baud rate (taken to be its place in the switch), or -1
BaudrateToBaud(baudrate) ==
    IF \E i \in 1..Len(Baudrates) : Baudrates[i] = baudrate
    THEN CHOOSE i \in 1..Len(Baudrates) : Baudrates[i] = baudrate
    ELSE -1

\* The descriptor a successful open() returns
OpenedFd == 3

NewRawSerialPort == [fd |-> -1]

\* A Shutdown that closes without forgetting the descriptor
RawSerialPortShutdownKeepsFd(p) == p

RawSerialPortShutdown(p) ==
    IF p.fd # -1 THEN [p EXCEPT !.fd = -1] ELSE p

\* What a return statement of a bool function makes of an int
BoolFromInt(x) == x # 0

\* openOk is whether open() succeeds on the device
RawSerialPortInitialize(p, baudrate, openOk) ==
    LET p0 == RawSerialPortShutdown(p)
        baud == BaudrateToBaud(baudrate)
        fd == IF openOk THEN OpenedFd ELSE -1
    IN  IF baud < 0 THEN [p |-> p0, ret |-> FALSE]
        ELSE IF fd < 0 THEN [p |-> [p0 EXCEPT !.fd = fd], ret |-> BoolFromInt(-1)]
        ELSE [p |-> [p0 EXCEPT !.fd = fd], ret |-> TRUE]

-----------------------------------------------------------------------------
(* waveshare.cpp: Waveshare::Initialize and Shutdown.  What the host and the  *)
(* module do during one Initialize is a plan: nothing fails, or the n-th      *)
(* call of one kind fails.  x is the driver d with the counts io of the calls *)
(* made so far and ok, whether every call so far returned true: once a call   *)
(* has returned false the callers return false in their turn, and no further  *)
(* call is made.                                                              *)

kCheckedChannelCount == 4

\* Default argument of ScanAmbientRssi
retries == 10

\* open() calls, configuration writes and RSSI reads of an Initialize that succeeds
NumOpens == 2 + 2 * kCheckedChannelCount

NumConfigs == 2 + kCheckedChannelCount

NumRssi == kCheckedChannelCount * retries

NoFailure == [what |-> "none", at |-> 0, how |-> "exact"]

\* how: the readback is too short, does not start with 0xc1, or differs
Plans ==
    {NoFailure}
    \cup {[what |-> "gpio", at |-> 1, how |-> "exact"]}
    \cup {[what |-> "open", at |-> n, how |-> "exact"] : n \in 1..NumOpens}
    \cup {[what |-> "echo", at |-> n, how |-> h] :
              n \in 1..NumConfigs, h \in {"short", "nack", "differs"}}
    \cup {[what |-> "rssi", at |-> n, how |-> "exact"] : n \in 1..NumRssi}

NewUplink ==
    [Serial |-> NewRawSerialPort, InConfigMode |-> FALSE, Baudrate |-> 9600, gpio |-> FALSE]

NoIo == [opens |-> 0, cfgs |-> 0, rssis |-> 0]

WaveshareShutdown(d) ==
    [d EXCEPT !.Serial = RawSerialPortShutdown(@), !.gpio = FALSE]

\* Serial.Shutdown and Serial.Initialize of the two mode switches
SerialReopen(x, baudrate, plan) ==
    LET n == x.io.opens + 1
        r == RawSerialPortInitialize(RawSerialPortShutdown(x.d.Serial), baudrate,
                                     ~(plan.what = "open" /\ plan.at = n))
    IN  [x EXCEPT !.d.Serial = r.p, !.io.opens = n, !.ok = r.ret]

EnterConfigMode(x, plan) ==
    IF ~x.ok \/ x.d.InConfigMode THEN x
    ELSE LET o == SerialReopen(x, 9600, plan)
         IN  IF o.ok THEN [o EXCEPT !.d.InConfigMode = TRUE] ELSE o

EnterTransmitMode(x, plan) ==
    IF ~x.ok \/ ~x.d.InConfigMode THEN x
    ELSE LET o == SerialReopen(x, x.d.Baudrate, plan)
         IN  IF o.ok THEN [o EXCEPT !.d.InConfigMode = FALSE] ELSE o

\* Serial.Write fails on a descriptor of -1; then the readback is looked at
WriteConfig(x, plan) ==
    IF ~x.ok THEN x
    ELSE LET n == x.io.cfgs + 1
             echo == IF plan.what = "echo" /\ plan.at = n THEN plan.how ELSE "exact"
         IN  [x EXCEPT !.io.cfgs = n,
                       !.ok = IF x.d.Serial.fd = -1 THEN FALSE
                              ELSE IF echo = "short" THEN FALSE
                              ELSE IF echo = "nack" THEN FALSE
                              ELSE IF echo = "differs" THEN FALSE
                              ELSE TRUE]

SetChannel(x, plan) ==
    EnterTransmitMode(WriteConfig(EnterConfigMode(x, plan), plan), plan)

ReadAmbientRssi(x, plan) ==
    IF ~x.ok THEN x
    ELSE LET n == x.io.rssis + 1
         IN  [x EXCEPT !.io.rssis = n,
                       !.ok = IF x.d.Serial.fd = -1 THEN FALSE
                              ELSE ~(plan.what = "rssi" /\ plan.at = n)]

\* The inner loop of ScanAmbientRssi, j reads to go
RECURSIVE ReadRetries(_, _, _)
ReadRetries(x, plan, j) ==
    IF j = 0 \/ ~x.ok THEN x
    ELSE ReadRetries(ReadAmbientRssi(x, plan), plan, j - 1)

\* ScanAmbientRssi from the i-th checked channel on
RECURSIVE ScanAmbientRssi(_, _, _)
ScanAmbientRssi(x, plan, i) ==
    IF i > kCheckedChannelCount \/ ~x.ok THEN x
    ELSE ScanAmbientRssi(ReadRetries(SetChannel(x, plan), plan, retries), plan, i + 1)

\* gpioInitialise
GpioInitialise(x, plan) ==
    IF plan.what = "gpio" THEN [x EXCEPT !.ok = FALSE] ELSE [x EXCEPT !.d.gpio = TRUE]

\* Baudrate = 115200, once the first configuration write is through
SetBaudrate(x) == IF x.ok THEN [x EXCEPT !.d.Baudrate = 115200] ELSE x

WaveshareInitialize(d, plan) ==
    LET d0 == [WaveshareShutdown(d) EXCEPT !.InConfigMode = FALSE, !.Baudrate = 9600]
        x == SetChannel(
                 ScanAmbientRssi(
                     SetBaudrate(
                         WriteConfig(
                             EnterConfigMode(
                                 GpioInitialise([d |-> d0, io |-> NoIo, ok |-> TRUE], plan),
                                 plan),
                             plan)),
                     plan, 1),
                 plan)
    IN  [d |-> x.d, ret |-> x.ok, io |-> x.io]

-----------------------------------------------------------------------------
(* waveshare.cpp: the driver together with what it drives: the M0 and M1     *)
(* lines, the module's registers (address, ambient bit, channel), the serial *)
(* port and the bytes waiting in it.  h is all of that, with ok (every call  *)
(* so far in the driver call under way returned true), io (the counts of the *)
(* calls made in it), log (what it did, in order) and history: seen, per     *)
(* channel the largest RSSI read while the module sat on the channel with    *)
(* the ambient bit set; stray, RSSI reads taken otherwise; stale, how many   *)
(* of the buffered bytes were read before the latest change of mode; and in  *)
(* last, of the latest call: whether it wrote a frame or parsed, the mode    *)
(* recorded then, and the bytes left in the port where it gave up a read.    *)

kChannelCount == 84

kCheckedChannels == <<16, 32, 48, 64>>

Channels == 0..(kChannelCount - 1)

NoCallYet ==
    [op |-> "none", ret |-> FALSE, wrote |-> FALSE, parsed |-> FALSE, channel |-> 0,
     addr |-> 0, inConfig |-> FALSE, staleAtParse |-> 0, left |-> 0]

HatAtRest ==
    [InConfigMode |-> FALSE, Baudrate |-> 9600, CurrentAddress |-> kMonitorAddress,
     TransmitAddress |-> kMonitorAddress, RecvOffsetBytes |-> 0,
     ChannelRssiRaw |-> [c \in Channels |-> 0], ChannelRssi |-> [c \in Channels |-> 0],
     fd |-> FALSE, baud |-> 0, gpio |-> FALSE, M0 |-> 0, M1 |-> 0,
     addr |-> 0, amb |-> 0, chan |-> 0, pending |-> 0,
     ok |-> TRUE, io |-> NoIo, log |-> << >>, largest_rssi |-> 0,
     seen |-> [c \in Channels |-> 0], stray |-> 0, stale |-> 0,
     ready |-> FALSE, calls |-> 0, arrived |-> 0, last |-> NoCallYet]

\* The float raw * 0.5f, in tenths of a dBm
HalfDbm(raw) == raw * 5

\* Serial.Flush, Serial.Shutdown, gpioWrite(kM1, m1), Serial.Initialize at
\* baudrate.  tcflush drops the bytes waiting in the port
HatSwitch(h, m1, baudrate, plan) ==
    LET n == h.io.opens + 1
        opened == ~(plan.what = "open" /\ plan.at = n)
    IN  [h EXCEPT !.M1 = m1, !.fd = opened, !.baud = IF opened THEN baudrate ELSE 0,
                  !.pending = 0, !.io.opens = n, !.ok = opened,
                  !.InConfigMode = IF opened THEN m1 = 1 ELSE @,
                  !.stale = h.RecvOffsetBytes,
                  !.log = @ \o <<"close", IF m1 = 1 THEN "M1 high" ELSE "M1 low",
                                 IF opened THEN "open" ELSE "open failed">>]

HatEnterConfigMode(h, plan) ==
    IF ~h.ok \/ h.InConfigMode THEN h ELSE HatSwitch(h, 1, 9600, plan)

HatEnterTransmitMode(h, plan) ==
    IF ~h.ok \/ ~h.InConfigMode THEN h ELSE HatSwitch(h, 0, h.Baudrate, plan)

\* WriteConfig of the address (offset 0, 2 bytes), of the ambient bit and the
\* channel (offset 4, 2 bytes), or of all nine bytes.  The module takes the
\* command if it is in configuration mode; where the readback is not the
\* exact echo the plan says whether it took it
HatWriteConfig(h, what, addr, amb, chan, plan) ==
    IF ~h.ok THEN h
    ELSE LET n == h.io.cfgs + 1
             echo == IF plan.what = "echo" /\ plan.at = n THEN plan.how ELSE "exact"
             taken == h.fd /\ h.M1 = 1 /\ (echo = "exact" \/ plan.applied)
         IN  [h EXCEPT !.io.cfgs = n,
                       !.ok = h.fd /\ echo = "exact",
                       !.addr = IF taken /\ what \in {"address", "all"} THEN addr ELSE @,
                       !.amb = IF taken /\ what \in {"channel", "all"} THEN amb ELSE @,
                       !.chan = IF taken /\ what \in {"channel", "all"} THEN chan ELSE @,
                       !.log = IF h.fd THEN Append(@, what) ELSE @]

HatSetAddress(h, addr, plan) ==
    IF ~h.ok \/ h.CurrentAddress = addr THEN h
    ELSE LET x == HatEnterTransmitMode(
                      HatWriteConfig(HatEnterConfigMode(h, plan), "address", addr, 0, 0, plan),
                      plan)
         IN  IF x.ok THEN [x EXCEPT !.CurrentAddress = addr] ELSE x

HatSetChannel(h, channel, enable_ambient_rssi, plan) ==
    HatEnterTransmitMode(
        HatWriteConfig(HatEnterConfigMode(h, plan), "channel", 0,
                       IF enable_ambient_rssi THEN 1 ELSE 0, channel % 256, plan),
        plan)

\* The RSSI the module reports at the j-th read on the i-th checked channel:
\* pat.low, but pat.high at read pat.peak
Reading(pat, i, j) == IF j = pat.peak THEN pat.high + i ELSE pat.low

\* A scan that takes the latest reading for the largest
HatReadAmbientRssiKeepsLast(h, plan, rssi) ==
    IF ~h.ok THEN h
    ELSE LET n == h.io.rssis + 1
             read == h.fd /\ ~(plan.what = "rssi" /\ plan.at = n)
             ambient == h.amb = 1 /\ h.M1 = 0
         IN  [h EXCEPT !.io.rssis = n, !.ok = read,
                       !.largest_rssi = IF read THEN rssi ELSE @,
                       !.seen[h.chan] = IF read /\ ambient /\ @ < rssi THEN rssi ELSE @,
                       !.stray = IF read /\ ~ambient THEN @ + 1 ELSE @,
                       !.log = IF read THEN Append(@, "rssi") ELSE @]

\* ReadAmbientRssi and the comparison behind it in ScanAmbientRssi
HatReadAmbientRssi(h, plan, rssi) ==
    IF ~h.ok THEN h
    ELSE LET n == h.io.rssis + 1
             read == h.fd /\ ~(plan.what = "rssi" /\ plan.at = n)
             ambient == h.amb = 1 /\ h.M1 = 0
         IN  [h EXCEPT !.io.rssis = n, !.ok = read,
                       !.largest_rssi = IF read /\ @ < rssi THEN rssi ELSE @,
                       !.seen[h.chan] = IF read /\ ambient /\ @ < rssi THEN rssi ELSE @,
                       !.stray = IF read /\ ~ambient THEN @ + 1 ELSE @,
                       !.log = IF read THEN Append(@, "rssi") ELSE @]

\* The inner loop of ScanAmbientRssi from read j on
RECURSIVE HatReadRetries(_, _, _, _, _)
HatReadRetries(h, plan, pat, i, j) ==
    IF j > retries \/ ~h.ok THEN h
    ELSE HatReadRetries(HatReadAmbientRssi(h, plan, Reading(pat, i, j)), plan, pat, i, j + 1)

\* ChannelRssi[channel] = dbm; ChannelRssiRaw[channel] = largest_rssi
HatStoreRssi(h, channel) ==
    IF ~h.ok THEN h
    ELSE [h EXCEPT !.ChannelRssi[channel] = HalfDbm(h.largest_rssi),
                   !.ChannelRssiRaw[channel] = h.largest_rssi]

\* ScanAmbientRssi from the i-th checked channel on
RECURSIVE HatScanAmbientRssi(_, _, _, _)
HatScanAmbientRssi(h, plan, pat, i) ==
    IF i > kCheckedChannelCount \/ ~h.ok THEN h
    ELSE HatScanAmbientRssi(
             HatStoreRssi(
                 HatReadRetries(
                     [HatSetChannel(h, kCheckedChannels[i], TRUE, plan)
                          EXCEPT !.largest_rssi = 0],
                     plan, pat, i, 1),
                 kCheckedChannels[i]),
             plan, pat, i + 1)

\* gpioInitialise, gpioSetMode and gpioWrite of both lines
HatGpio(h, plan) ==
    IF plan.what = "gpio" THEN [h EXCEPT !.ok = FALSE]
    ELSE [h EXCEPT !.gpio = TRUE, !.M0 = 0, !.M1 = 0, !.log = Append(@, "M1 low")]

HatBaudrate(h) == IF h.ok THEN [h EXCEPT !.Baudrate = 115200] ELSE h

\* The driver call under way begins: nothing has failed or been done in it
HatCall(h, op, channel, addr) ==
    [h EXCEPT !.ok = TRUE, !.io = NoIo, !.log = << >>, !.calls = @ + 1,
              !.last = [NoCallYet EXCEPT !.op = op, !.channel = channel, !.addr = addr]]

HatReturn(h) == [h EXCEPT !.last.ret = h.ok, !.ok = TRUE]

\* Waveshare::Initialize(channel, transmit_addr)
HatInitialize(h, channel, transmit_addr, plan, pat) ==
    LET h0 == [HatCall(h, "Initialize", channel, transmit_addr) EXCEPT
                   !.fd = FALSE, !.baud = 0, !.gpio = FALSE, !.pending = 0,
                   !.ChannelRssi = [c \in Channels |-> 0],
                   !.ChannelRssiRaw = [c \in Channels |-> 0],
                   !.seen = [c \in Channels |-> 0], !.stray = 0,
                   !.InConfigMode = FALSE, !.Baudrate = 9600,
                   !.RecvOffsetBytes = 0, !.stale = 0,
                   !.CurrentAddress = transmit_addr, !.TransmitAddress = transmit_addr]
        x == HatSetChannel(
                 HatScanAmbientRssi(
                     HatBaudrate(
                         HatWriteConfig(HatEnterConfigMode(HatGpio(h0, plan), plan),
                                        "all", transmit_addr, 0, channel % 256, plan)),
                     plan, pat, 1),
                 channel, FALSE, plan)
    IN  [HatReturn(x) EXCEPT !.ready = x.ok]

\* Waveshare::SetChannel(channel) called by the engine
HatSetChannelCall(h, channel, plan) ==
    HatReturn(HatSetChannel(HatCall(h, "SetChannel", channel, 0), channel, FALSE, plan))

\* Waveshare::Send of a payload of at most kPacketMaxBytes bytes; wr is
\* whether Serial.Write takes the frame
HatSend(h, plan, wr) ==
    LET x == HatSetAddress(HatCall(h, "Send", 0, h.TransmitAddress), h.TransmitAddress, plan)
        wrote == x.ok /\ x.fd /\ wr
    IN  HatReturn([x EXCEPT !.ok = wrote, !.last.wrote = wrote, !.last.inConfig = x.InConfigMode,
                            !.log = IF wrote THEN Append(@, "frame") ELSE @])

\* FillRecvBuffer, as far as the counts go: GetAvailable fails on a closed port
HatFillRecvBuffer(h, readOk) ==
    LET remaining_buffer_bytes == kRecvBufferBytes - h.RecvOffsetBytes
        read_bytes == IF h.pending > remaining_buffer_bytes
                      THEN remaining_buffer_bytes ELSE h.pending
    IN  IF ~h.ok \/ remaining_buffer_bytes <= 0 THEN h
        ELSE IF ~h.fd THEN [h EXCEPT !.RecvOffsetBytes = 0, !.stale = 0, !.ok = FALSE,
                                     !.last.left = h.pending, !.log = Append(@, "resync")]
        ELSE IF h.pending = 0 THEN h
        ELSE IF ~readOk THEN [h EXCEPT !.RecvOffsetBytes = 0, !.stale = 0, !.ok = FALSE,
                                       !.last.left = h.pending, !.log = Append(@, "resync")]
        ELSE [h EXCEPT !.RecvOffsetBytes = @ + read_bytes, !.pending = @ - read_bytes,
                       !.log = Append(@, "read")]

\* The scan and the memmove of Receive: the scan ends at start_offset, which
\* the bytes decide
HatParse(h, all) ==
    LET start_offset == IF all THEN h.RecvOffsetBytes ELSE 0
    IN  IF ~h.ok THEN h
        ELSE [h EXCEPT !.last.parsed = TRUE, !.last.inConfig = h.InConfigMode,
                       !.last.staleAtParse = h.stale,
                       !.RecvOffsetBytes = @ - start_offset,
                       !.stale = IF @ > start_offset THEN @ - start_offset ELSE 0,
                       !.log = Append(@, "parse")]

\* Waveshare::Receive
HatReceive(h, plan, readOk, all) ==
    HatReturn(
        HatParse(
            HatFillRecvBuffer(
                HatSetAddress(HatCall(h, "Receive", 0, kMonitorAddress), kMonitorAddress, plan),
                readOk),
            all))

-----------------------------------------------------------------------------
(* loraftp.hpp: a FileSender or FileReceiver as far as Initialize, Shutdown   *)
(* and its destructor go: the flag, the thread handle, the driver and whether *)
(* a codec is held.  Thread is the number of the task the handle stands for,  *)
(* 0 for a null pointer.                                                      *)

NewEngine ==
    [Terminated |-> FALSE, Thread |-> 0, Uplink |-> NewUplink, Codec |-> "null",
     PercentageComplete |-> 0, destroyed |-> FALSE]

NoCall == [baudrate |-> 0, openOk |-> FALSE, done |-> FALSE, ret |-> FALSE, fd |-> -1]

\* hist: the calls that have returned; meddled: a task ran during the call under way
MainIdle == [op |-> "none", pc |-> "none", hist |-> << >>, meddled |-> FALSE]

\* engine: what the engine's Initialize returned, "pending" until it has
NoBoot == [what |-> "none", at |-> 0, ret |-> FALSE, engine |-> "none", started |-> FALSE]

NoTally == [closes |-> 0, frees |-> 0]

\* The locals of FileSender::Loop while it is not running.  sent: data packets Uplink.Send has taken; last: the payload of the latest
\* one; before: what was handed to Uplink.Send just before it
LoopAtRest ==
    [pc |-> "none", file |-> 0, CompressedFileBytes |-> 0, block |-> << >>, block_id |-> 0,
     block_bytes |-> 0, sent |-> 0, last |-> << >>, before |-> "none"]

\* The variables of the object's lifecycle in the specifications that do not move them
HostAtRest ==
    /\ port = NewRawSerialPort
    /\ call = NoCall
    /\ role = "receiver"
    /\ obj = NewEngine
    /\ tasks = << >>
    /\ main = MainIdle
    /\ boot = NoBoot
    /\ tally = NoTally
    /\ hazards = {}
    /\ aborted = FALSE
    /\ loop = LoopAtRest
    /\ hat = HatAtRest
    /\ feed = FeedAtRest

-----------------------------------------------------------------------------
(* zstd and wirehair, as far as the engine relies on them.  Both are         *)
(* libraries outside the repository; a compressed buffer and an encoded      *)
(* block are kept as descriptions of their contents, not as bytes.           *)

kBlockBytes == 234

kFileBlockBytes == kPacketMaxBytes - 1

\* The files of the model: a path as character codes, and the file's bytes.
\* The first one compresses to more than two blocks and its bytes happen to
\* have the layout name length, name, NUL, data
Slash == 47

Backslash == 92

Files ==
    << [path |-> <<100, Slash, 65>>, data |-> <<1, 65, 0, 7>>],
       [path |-> <<100, Backslash, 67>>, data |-> <<0, 0, 5>>],
       [path |-> <<66>>, data |-> <<9, 9>>] >>

\* Size of ZSTD_compress's output.  zstd decides it; the model takes half a
\* block per source byte, which puts the files on both sides of two blocks
CompressedSize(src) == (kBlockBytes \div 2) * Len(src) + 1

ZSTD_compress(src) == [kind |-> "zstd", of |-> src]

Garbage == [kind |-> "garbage", of |-> << >>]

\* Decompressed size, or -1 for an error code (not a frame, or dst too small)
ZSTD_decompress(dstCapacity, src) ==
    IF src.kind = "zstd" /\ Len(src.of) <= dstCapacity THEN Len(src.of) ELSE -1

BlockCount(bytes) == (bytes + kBlockBytes - 1) \div kBlockBytes

NullCodec == [null |-> TRUE, bytes |-> 0, rows |-> << >>]

\* wirehair codes messages of at least two blocks only
wirehair_encoder_create(message_bytes) == BlockCount(message_bytes) >= 2

wirehair_decoder_create(message_bytes) ==
    IF BlockCount(message_bytes) < 2 THEN NullCodec
    ELSE [null |-> FALSE, bytes |-> message_bytes, rows |-> << >>]

RowIds(codec) == {codec.rows[i].id : i \in 1..Len(codec.rows)}

\* data is a pointer into a packet: [body, off], off bytes into the 234 bytes
\* behind the packet's id byte.  body = [file, id, lead] says that these 234
\* bytes are lead filler bytes and then the block wirehair_encode makes for id
\* from the compressed file.  A strict library refuses a block of the wrong
\* size; a lenient one reads a whole block from the pointer whatever size it
\* is told, and then the byte it reads past the packet is the right one
\* (luck) or not.
wirehair_decode(l, codec, block_id, data, bytes, luck) ==
    IF codec.null THEN [codec |-> codec, r |-> "Wirehair_InvalidInput"]
    ELSE IF l = "strict" /\ bytes # kBlockBytes
    THEN [codec |-> codec, r |-> "Wirehair_InvalidInput"]
    ELSE LET row == [id |-> block_id, body |-> data.body, off |-> data.off, bytes |-> bytes,
                     whole |-> /\ data.off = data.body.lead
                               /\ (data.off + bytes >= data.body.lead + kBlockBytes \/ luck)]
             next == [codec EXCEPT !.rows = Append(@, row)]
         IN  [codec |-> next,
              r |-> IF Cardinality(RowIds(next)) >= BlockCount(codec.bytes)
                    THEN "Wirehair_Success" ELSE "Wirehair_NeedMore"]

\* The message the rows determine: the compressed file they were all encoded
\* from, if every row is a whole block under its own id; anything otherwise
wirehair_recover(codec, bytes) ==
    IF codec.null \/ bytes # codec.bytes THEN [r |-> "Wirehair_InvalidInput", out |-> Garbage]
    ELSE IF /\ \A i \in 1..Len(codec.rows) :
                  /\ codec.rows[i].whole
                  /\ codec.rows[i].id = U32FromNat(codec.rows[i].body.id)
                  /\ codec.rows[i].body.file = codec.rows[1].body.file
            /\ CompressedSize(Files[codec.rows[1].body.file].data) = codec.bytes
    THEN [r |-> "Wirehair_Success", out |-> ZSTD_compress(Files[codec.rows[1].body.file].data)]
    ELSE [r |-> "Wirehair_Success", out |-> Garbage]

-----------------------------------------------------------------------------
(* loraftp.cpp: FileSender::Initialize *)

LastSlash(path) ==
    LET at == {i \in 1..Len(path) : path[i] = Slash \/ path[i] = Backslash}
    IN  IF at = {} THEN 0 ELSE CHOOSE i \in at : \A j \in at : j <= i

NoSender ==
    [ok |-> FALSE, file |-> 0, Filename |-> << >>, CompressedFile |-> Garbage,
     CompressedFileBytes |-> 0, FileHash |-> 0, DecompressedBytes |-> 0]

FileSenderInitialize(f) ==
    LET filepath == Files[f].path
        file_data == Files[f].data
    IN  [ok |-> wirehair_encoder_create(CompressedSize(file_data)),
         file |-> f,
         Filename |-> SubSeq(filepath, LastSlash(filepath) + 1, Len(filepath)),
         CompressedFile |-> ZSTD_compress(file_data),
         CompressedFileBytes |-> CompressedSize(file_data),
         FileHash |-> 0,
         DecompressedBytes |-> 0]

-----------------------------------------------------------------------------
(* loraftp.cpp: the main loop of FileSender::Loop.  A byte of the buffer     *)
(* block is kept as a description of where it came from: not yet written,    *)
(* the truncated id, or the byte at place `at` (from 0) of the block that    *)
(* wirehair_encode makes for a block id.                                     *)

Unwritten == [of |-> "unwritten", id |-> 0, at |-> 0]

IdByte(v) == [of |-> "id", id |-> v, at |-> 0]

Encoded(block_id, i) == [of |-> "block", id |-> block_id, at |-> i]

\* Bytes wirehair_encode writes for a block: the last block of the message
\* holds what is left of it, every other block is a full one
EncodedBytes(message_bytes, block_id) ==
    IF block_id = BlockCount(message_bytes) - 1
    THEN message_bytes - block_id * kBlockBytes
    ELSE kBlockBytes

\* wirehair_encode(Encoder, block_id, block + off, kBlockBytes, &block_bytes)
wirehair_encode(message_bytes, block_id, block, off, ok) ==
    LET n == EncodedBytes(message_bytes, block_id)
    IN  IF ~ok THEN [r |-> "Wirehair_Error", block |-> block, block_bytes |-> 0]
        ELSE [r |-> "Wirehair_Success",
              block |-> [j \in 1..Len(block) |->
                            IF j - 1 >= off /\ j - 1 < off + n
                            THEN Encoded(block_id, j - 1 - off) ELSE block[j]],
              block_bytes |-> n]

\* The locals where the offer has been accepted and the channel set
LoopEntry(f) ==
    [LoopAtRest EXCEPT !.pc = "encode", !.file = f,
                       !.CompressedFileBytes = FileSenderInitialize(f).CompressedFileBytes,
                       !.block = [j \in 1..(1 + kBlockBytes) |-> Unwritten]]

\* The first wirehair_encode, ahead of the loop
LoopEncodeFirst(lp, ok) ==
    LET e == wirehair_encode(lp.CompressedFileBytes, lp.block_id, lp.block, 1, ok)
    IN  IF e.r # "Wirehair_Success" THEN [lp EXCEPT !.pc = "exited"]
        ELSE [lp EXCEPT !.pc = "loop", !.block = e.block, !.block_bytes = e.block_bytes]

PacketKind(payload) ==
    IF payload = << >> THEN "none" ELSE IF Len(payload) = 4 + 4 + 4 + 4 THEN "info" ELSE "data"

\* One round of the loop in which the send interval has passed
LoopSendBlock(lp, sent, ok) ==
    LET block1 == [lp.block EXCEPT ![1] = IdByte(lp.block_id % 256)]
        payload == SubSeq(block1, 1, 1 + lp.block_bytes)
        lp1 == [lp EXCEPT !.block = block1, !.block_id = @ + 1, !.sent = @ + 1,
                          !.last = payload, !.before = PacketKind(lp.last)]
        e == wirehair_encode(lp.CompressedFileBytes, lp1.block_id, block1, 0, ok)
    IN  IF ~sent THEN [lp EXCEPT !.pc = "exited", !.block = block1]
        ELSE IF e.r # "Wirehair_Success" THEN [lp1 EXCEPT !.pc = "exited"]
        ELSE [lp1 EXCEPT !.block = e.block, !.block_bytes = e.block_bytes]

-----------------------------------------------------------------------------
(* loraftp.cpp: FileReceiver *)

timeout_sec == 20

\* Seconds of silence the model tells apart: up to one more than the timeout
IdleCap == timeout_sec + 1

\* The object after construction.  Events is the history of OnRecv calls;
\* Crashed says that the process ran into undefined behaviour and died
NewFileReceiver ==
    [TransferComplete |-> FALSE, FileBytes |-> 0, DecompressedBytes |-> 0, FileHash |-> 0,
     NextBlockId |-> U32(0, 0), TotalBlockCount |-> 0, FileBlockCount |-> 0,
     Decoder |-> NullCodec, BufferedBlocks |-> << >>, Events |-> << >>, Crashed |-> FALSE]

\* progress is the pair numerator, denominator of the float
OnRecv(r, progress, done, file_name, file_data) ==
    [r EXCEPT !.Events = Append(@, [progress |-> progress, done |-> done,
                                    file_name |-> file_name, file_data |-> file_data])]

RECURSIVE CString(_, _)
CString(bytes, from) ==
    IF from > Len(bytes) \/ bytes[from] = 0 THEN << >>
    ELSE << bytes[from] >> \o CString(bytes, from + 1)

\* OnBlock without its first test
OnBlockIgnoresLatch(l, r, truncated_id, data, bytes, luck) ==
    IF r.FileBytes = 0
    THEN [r EXCEPT !.BufferedBlocks =
              Append(@, [id |-> truncated_id, body |-> data.body, off |-> data.off, bytes |-> bytes])]
    ELSE
    LET id == ExpandFromTruncated(r.NextBlockId, truncated_id)
        dec == wirehair_decode(l, r.Decoder, id, [data EXCEPT !.off = @ + 1], bytes - 1, luck)
        r1 == [r EXCEPT !.NextBlockId = id, !.Decoder = dec.codec]
        r2 == [r1 EXCEPT !.TransferComplete = TRUE]
        rec == wirehair_recover(r2.Decoder, r2.FileBytes)
        decompress_result == ZSTD_decompress(r2.DecompressedBytes, rec.out)
        DecompressedData == rec.out.of
        file_name_bytes == DecompressedData[1]
        header_bytes == 1 + file_name_bytes + 1
    IN  IF dec.r = "Wirehair_NeedMore"
        THEN OnRecv([r1 EXCEPT !.FileBlockCount = @ + 1],
                    <<r1.FileBlockCount + 1, r1.TotalBlockCount>>, FALSE, << >>, << >>)
        ELSE IF dec.r # "Wirehair_Success" THEN r2
        ELSE IF rec.r # "Wirehair_Success" THEN r2
        ELSE IF decompress_result # r2.DecompressedBytes THEN r2
        ELSE IF header_bytes > r2.DecompressedBytes THEN r2
        ELSE OnRecv(r2, <<1, 1>>, TRUE,
                    CString([DecompressedData EXCEPT ![1 + file_name_bytes + 1] = 0], 2),
                    SubSeq(DecompressedData, header_bytes + 1, Len(DecompressedData)))

OnBlock(l, r, truncated_id, data, bytes, luck) ==
    IF r.TransferComplete THEN r
    ELSE IF r.FileBytes = 0
    THEN [r EXCEPT !.BufferedBlocks =
              Append(@, [id |-> truncated_id, body |-> data.body, off |-> data.off, bytes |-> bytes])]
    ELSE
    LET id == ExpandFromTruncated(r.NextBlockId, truncated_id)
        dec == wirehair_decode(l, r.Decoder, id, [data EXCEPT !.off = @ + 1], bytes - 1, luck)
        r1 == [r EXCEPT !.NextBlockId = id, !.Decoder = dec.codec]
        r2 == [r1 EXCEPT !.TransferComplete = TRUE]
        rec == wirehair_recover(r2.Decoder, r2.FileBytes)
        decompress_result == ZSTD_decompress(r2.DecompressedBytes, rec.out)
        DecompressedData == rec.out.of
        file_name_bytes == DecompressedData[1]
        header_bytes == 1 + file_name_bytes + 1
    IN  IF dec.r = "Wirehair_NeedMore"
        THEN OnRecv([r1 EXCEPT !.FileBlockCount = @ + 1],
                    <<r1.FileBlockCount + 1, r1.TotalBlockCount>>, FALSE, << >>, << >>)
        ELSE IF dec.r # "Wirehair_Success" THEN r2
        ELSE IF rec.r # "Wirehair_Success" THEN r2
        ELSE IF decompress_result # r2.DecompressedBytes THEN r2
        ELSE IF header_bytes > r2.DecompressedBytes THEN r2
        ELSE OnRecv(r2, <<1, 1>>, TRUE,
                    CString([DecompressedData EXCEPT ![1 + file_name_bytes + 1] = 0], 2),
                    SubSeq(DecompressedData, header_bytes + 1, Len(DecompressedData)))

RECURSIVE Replay(_, _, _, _)
Replay(l, r, blocks, luck) ==
    IF blocks = << >> THEN r
    ELSE Replay(l, OnBlock(l, r, blocks[1].id, [body |-> blocks[1].body, off |-> blocks[1].off],
                           kFileBlockBytes, luck),
                Tail(blocks), luck)

\* OnFileInfo that leaves NextBlockId alone where the triple is the stored one
OnFileInfoKeepsId(l, r, file_bytes, hash, next_block_id, decompressed_bytes, luck, crash) ==
    IF file_bytes <= 0 \/ decompressed_bytes < 2 THEN r
    ELSE
    LET r0 == [r EXCEPT !.NextBlockId = next_block_id]
        dec == wirehair_decoder_create(file_bytes)
        r1 == [r0 EXCEPT !.TransferComplete = FALSE, !.Decoder = dec]
        r2 == IF ~dec.null
              THEN [r1 EXCEPT !.FileBytes = file_bytes, !.FileHash = hash,
                              !.DecompressedBytes = decompressed_bytes]
              ELSE r1
        r3 == OnRecv([r2 EXCEPT !.TotalBlockCount = BlockCount(r2.FileBytes), !.FileBlockCount = 0],
                     <<0, 1>>, FALSE, << >>, << >>)
    IN  IF r.FileBytes = file_bytes /\ r.FileHash = hash /\ r.DecompressedBytes = decompressed_bytes
        THEN r
        ELSE IF r3.FileBytes = 0 /\ r3.BufferedBlocks # << >>
        THEN IF crash THEN [r3 EXCEPT !.Crashed = TRUE] ELSE [r3 EXCEPT !.BufferedBlocks = << >>]
        ELSE [Replay(l, r3, r3.BufferedBlocks, luck) EXCEPT !.BufferedBlocks = << >>]

\* OnFileInfo that takes the block id before it tests the lengths
OnFileInfoIdFirst(l, r, file_bytes, hash, next_block_id, decompressed_bytes, luck, crash) ==
    IF file_bytes <= 0 \/ decompressed_bytes < 2 THEN [r EXCEPT !.NextBlockId = next_block_id]
    ELSE
    LET r0 == [r EXCEPT !.NextBlockId = next_block_id]
        dec == wirehair_decoder_create(file_bytes)
        r1 == [r0 EXCEPT !.TransferComplete = FALSE, !.Decoder = dec]
        r2 == IF ~dec.null
              THEN [r1 EXCEPT !.FileBytes = file_bytes, !.FileHash = hash,
                              !.DecompressedBytes = decompressed_bytes]
              ELSE r1
        r3 == OnRecv([r2 EXCEPT !.TotalBlockCount = BlockCount(r2.FileBytes), !.FileBlockCount = 0],
                     <<0, 1>>, FALSE, << >>, << >>)
    IN  IF r.FileBytes = file_bytes /\ r.FileHash = hash /\ r.DecompressedBytes = decompressed_bytes
        THEN r0
        ELSE IF r3.FileBytes = 0 /\ r3.BufferedBlocks # << >>
        THEN IF crash THEN [r3 EXCEPT !.Crashed = TRUE] ELSE [r3 EXCEPT !.BufferedBlocks = << >>]
        ELSE [Replay(l, r3, r3.BufferedBlocks, luck) EXCEPT !.BufferedBlocks = << >>]

\* OnFileInfo without BufferedBlocks.clear()
OnFileInfoKeepsBuffer(l, r, file_bytes, hash, next_block_id, decompressed_bytes, luck, crash) ==
    IF file_bytes <= 0 \/ decompressed_bytes < 2 THEN r
    ELSE
    LET r0 == [r EXCEPT !.NextBlockId = next_block_id]
        dec == wirehair_decoder_create(file_bytes)
        r1 == [r0 EXCEPT !.TransferComplete = FALSE, !.Decoder = dec]
        r2 == IF ~dec.null
              THEN [r1 EXCEPT !.FileBytes = file_bytes, !.FileHash = hash,
                              !.DecompressedBytes = decompressed_bytes]
              ELSE r1
        r3 == OnRecv([r2 EXCEPT !.TotalBlockCount = BlockCount(r2.FileBytes), !.FileBlockCount = 0],
                     <<0, 1>>, FALSE, << >>, << >>)
    IN  IF r.FileBytes = file_bytes /\ r.FileHash = hash /\ r.DecompressedBytes = decompressed_bytes
        THEN r0
        ELSE IF r3.FileBytes = 0 /\ r3.BufferedBlocks # << >>
        THEN IF crash THEN [r3 EXCEPT !.Crashed = TRUE] ELSE [r3 EXCEPT !.BufferedBlocks = << >>]
        ELSE Replay(l, r3, r3.BufferedBlocks, luck)

\* When the decoder could not be created and no file is known, OnBlock
\* appends to BufferedBlocks while the loop iterates over it: undefined
\* behaviour, which ends the process (crash) or leaves the loop to finish
OnFileInfo(l, r, file_bytes, hash, next_block_id, decompressed_bytes, luck, crash) ==
    IF file_bytes <= 0 \/ decompressed_bytes < 2 THEN r
    ELSE
    LET r0 == [r EXCEPT !.NextBlockId = next_block_id]
        dec == wirehair_decoder_create(file_bytes)
        r1 == [r0 EXCEPT !.TransferComplete = FALSE, !.Decoder = dec]
        r2 == IF ~dec.null
              THEN [r1 EXCEPT !.FileBytes = file_bytes, !.FileHash = hash,
                              !.DecompressedBytes = decompressed_bytes]
              ELSE r1
        r3 == OnRecv([r2 EXCEPT !.TotalBlockCount = BlockCount(r2.FileBytes), !.FileBlockCount = 0],
                     <<0, 1>>, FALSE, << >>, << >>)
    IN  IF r.FileBytes = file_bytes /\ r.FileHash = hash /\ r.DecompressedBytes = decompressed_bytes
        THEN r0
        ELSE IF r3.FileBytes = 0 /\ r3.BufferedBlocks # << >>
        THEN IF crash THEN [r3 EXCEPT !.Crashed = TRUE] ELSE [r3 EXCEPT !.BufferedBlocks = << >>]
        ELSE [Replay(l, r3, r3.BufferedBlocks, luck) EXCEPT !.BufferedBlocks = << >>]

NoInfo == [file_bytes |-> 0, hash |-> 0, next_block_id |-> U32(0, 0), decompressed_bytes |-> 0]

NoBody == [file |-> 0, id |-> 0, lead |-> 0]

InfoPacket(info) == [bytes |-> 16, info |-> info, id |-> 0, body |-> NoBody]

DataPacket(f, block_id, lead) ==
    [bytes |-> kPacketMaxBytes, info |-> NoInfo, id |-> block_id % 256,
     body |-> [file |-> f, id |-> block_id, lead |-> lead]]

OtherPacket == [bytes |-> 1, info |-> NoInfo, id |-> 0, body |-> NoBody]

\* The callback FileReceiver::Loop hands to Uplink.Receive
LoopCallback(l, r, pkt, luck, crash) ==
    IF pkt.bytes = 4 + 4 + 4 + 4
    THEN OnFileInfo(l, r, pkt.info.file_bytes, pkt.info.hash, pkt.info.next_block_id,
                    pkt.info.decompressed_bytes, luck, crash)
    ELSE IF pkt.bytes = kPacketMaxBytes
    THEN OnBlock(l, r, pkt.id, [body |-> pkt.body, off |-> 0], pkt.bytes - 1, luck)
    ELSE r

IdleCheckKeepsHash(r, dt) ==
    IF dt > timeout_sec /\ r.FileBytes # 0
    THEN [r EXCEPT !.FileBytes = 0, !.NextBlockId = U32(0, 0), !.BufferedBlocks = << >>]
    ELSE r

\* An idle check that clears the latch as well
IdleCheckClearsLatch(r, dt) ==
    IF dt > timeout_sec /\ r.FileBytes # 0
    THEN [r EXCEPT !.FileBytes = 0, !.FileHash = 0, !.NextBlockId = U32(0, 0),
                   !.BufferedBlocks = << >>, !.TransferComplete = FALSE]
    ELSE r

\* The idle check of FileReceiver::Loop, dt in seconds
IdleCheck(r, dt) ==
    IF dt > timeout_sec /\ r.FileBytes # 0
    THEN [r EXCEPT !.FileBytes = 0, !.FileHash = 0, !.NextBlockId = U32(0, 0),
                   !.BufferedBlocks = << >>]
    ELSE r

NoStep ==
    [kind |-> "none", pkt |-> OtherPacket, buffered |-> << >>, nevents |-> 0,
     afterIdle |-> FALSE, reset |-> FALSE, dt |-> 0]

NoRun ==
    [infos |-> 0, accepted |-> 0, prior |-> "fresh", info |-> NoInfo, file |-> 0, ids |-> {},
     mark |-> 0, disturbed |-> FALSE]

\* The engine's variables in the specifications that do not move them
EngineAtRest ==
    /\ lib = "lenient"
    /\ compensate = FALSE
    /\ beyond = FALSE
    /\ snd = NoSender
    /\ rcv = NewFileReceiver
    /\ idle = 0
    /\ running = TRUE
    /\ fed = 0
    /\ restarts = 0
    /\ step = NoStep
    /\ run = NoRun

-----------------------------------------------------------------------------
(* SpecFrame: a sending host, the line, a receiving host *)

RECURSIVE SeqsUpTo(_, _)
SeqsUpTo(S, n) ==
    IF n = 0 THEN {<< >>}
    ELSE LET shorter == SeqsUpTo(S, n - 1)
         IN  shorter \cup {Append(s, x) : s \in {t \in shorter : Len(t) = n - 1}, x \in S}

\* One payload Send must refuse
Oversize == [i \in 1..(kPacketMaxBytes + 1) |-> 0]

Payloads == (SeqsUpTo(PayloadBytes, MaxPayloadLen) \ {<< >>}) \cup {Oversize}

Kinds(log) == {log[i].kind : i \in 1..Len(log)}

InitFrame ==
    /\ build \in {"armv8", "fallback"}
    /\ txd = NewWaveshare(kSenderAddr)
    /\ rxd = NewWaveshare(kMonitorAddress)
    /\ line = << >>
    /\ lineLog = << >>
    /\ lastSend = [data |-> << >>, ok |-> FALSE, frame |-> << >>]
    /\ delivered = << >>
    /\ lastRecv = [ok |-> TRUE, n |-> 0, start_offset |-> 0]
    /\ paused = FALSE
    /\ rxFailed = FALSE
    /\ ctr = NoExpansion
    /\ EngineAtRest
    /\ HostAtRest

NumFrames(log) == Cardinality({i \in 1..Len(log) : log[i].kind # "junk"})

\* Line noise ahead of the first frame.  (A run ends when the receiving loop
\* has stopped: nothing is observed on the line after that.)
Junk(x) ==
    /\ ~rxFailed
    /\ Kinds(lineLog) \subseteq {"junk"}
    /\ Len(lineLog) < MaxJunk
    /\ line' = Append(line, x)
    /\ lineLog' = Append(lineLog, [kind |-> "junk", payload |-> << >>, bytes |-> <<x>>])
    /\ UNCHANGED <<build, txd, rxd, lastSend, delivered, lastRecv, paused, rxFailed, ctr, loop, hat, feed, engineVars, hostVars>>

\* The sending host calls Send; what it writes crosses the air unchanged
TxSend(data, wr) ==
    /\ ~rxFailed
    /\ NumFrames(lineLog) < MaxSends
    /\ LET r == Send(build, txd, data, "ok", wr)
       IN  /\ txd' = r.d
           /\ lastSend' = [data |-> data, ok |-> r.ok, frame |-> r.frame]
           /\ line' = line \o r.written
           /\ lineLog' = IF r.written = << >> THEN lineLog
                         ELSE Append(lineLog,
                                     [kind |-> "frame", payload |-> data, bytes |-> r.written])
    /\ UNCHANGED <<build, rxd, delivered, lastRecv, paused, rxFailed, ctr, loop, hat, feed, engineVars, hostVars>>

\* The sending host calls Send; one payload byte is altered on the way
TxSendCorrupted(data, i, x) ==
    /\ ~rxFailed
    /\ NumFrames(lineLog) < MaxSends
    /\ Kinds(lineLog) \subseteq {"frame"}
    /\ i \in 1..Len(data)
    /\ x # data[i]
    /\ LET r == Send(build, txd, data, "ok", "ok")
           bytes == [r.written EXCEPT ![5 + i] = x]
       IN  /\ r.ok
           /\ txd' = r.d
           /\ lastSend' = [data |-> data, ok |-> r.ok, frame |-> r.frame]
           /\ line' = line \o bytes
           /\ lineLog' = Append(lineLog, [kind |-> "bad", payload |-> data, bytes |-> bytes])
    /\ UNCHANGED <<build, rxd, delivered, lastRecv, paused, rxFailed, ctr, loop, hat, feed, engineVars, hostVars>>

\* The receiving host's loop calls Receive
RxReceive(available, readOk) ==
    /\ ~rxFailed
    /\ LET r == Receive(build, rxd, line, "ok", available, readOk)
       IN  /\ rxd' = r.d
           /\ line' = r.q
           /\ delivered' = delivered \o r.out
           /\ lastRecv' = [ok |-> r.ok, n |-> Len(r.out), start_offset |-> r.start_offset]
           /\ paused' = (paused \/ (r.ok /\ r.d.RecvOffsetBytes > 0))
           /\ rxFailed' = ~r.ok
    /\ UNCHANGED <<build, txd, lineLog, lastSend, ctr, loop, hat, feed, engineVars, hostVars>>

NextFrame ==
    \/ \E x \in JunkBytes : Junk(x)
    \/ \E data \in Payloads, wr \in {"ok", "error"} : TxSend(data, wr)
    \/ \E data \in Payloads \ {Oversize}, i \in 1..MaxPayloadLen, x \in PayloadBytes :
          TxSendCorrupted(data, i, x)
    \/ \E available \in {-1} \cup {n \in 0..Len(line) : n <= MaxChunk \/ n = Len(line)},
          readOk \in BOOLEAN :
          RxReceive(available, readOk)

SpecFrame == InitFrame /\ [][NextFrame]_vars

-----------------------------------------------------------------------------
(* SpecFill: a receiving host whose UART never runs dry.  The bytes of a   *)
(* stream that repeats itself arrive piece by piece, junk and frames of    *)
(* the largest payload among them, and Receive is called over and over;    *)
(* nothing is kept of the past but what the latest call parsed.            *)

\* The largest payload: zeros, with a byte that reads as the length of a
\* frame at every Stride-th place
FullPayload == [i \in 1..kPacketMaxBytes |-> IF i % Stride = 0 THEN kPacketMaxBytes ELSE 0]

\* What arrives at the UART in one piece: a junk byte, a byte that reads as
\* a length, the frame of the largest payload, its head, its tail, the same
\* frame with its last byte altered, or the frame of a 1-byte payload
Piece(b, name) ==
    LET whole == Frame(b, FullPayload)
    IN  CASE name = "junk" -> <<250>>
          [] name = "length" -> <<3>>
          [] name = "whole" -> whole
          [] name = "head" -> SubSeq(whole, 1, HeadLen)
          [] name = "tail" -> SubSeq(whole, HeadLen + 1, Len(whole))
          [] name = "bad" -> [whole EXCEPT ![Len(whole)] = 250]
          [] OTHER -> Frame(b, <<0>>)

\* The streams: each is repeated without end
Streams ==
    { <<"whole">>, <<"junk">>, <<"junk", "whole">>, <<"length", "whole", "small">>,
      <<"head", "whole">>, <<"head", "tail", "junk">>, <<"bad", "small", "whole">>,
      <<"small", "head", "bad", "tail">> }

InitFill ==
    /\ build \in {"armv8", "fallback"}
    /\ txd = NewWaveshare(kSenderAddr)
    /\ rxd = NewWaveshare(kMonitorAddress)
    /\ line = << >>
    /\ lineLog = << >>
    /\ lastSend = [data |-> << >>, ok |-> FALSE, frame |-> << >>]
    /\ delivered = << >>
    /\ lastRecv = [ok |-> TRUE, n |-> 0, start_offset |-> 0]
    /\ paused = FALSE
    /\ rxFailed = FALSE
    /\ ctr = NoExpansion
    /\ EngineAtRest
    /\ port = NewRawSerialPort
    /\ call = NoCall
    /\ role = "receiver"
    /\ obj = NewEngine
    /\ tasks = << >>
    /\ main = MainIdle
    /\ boot = NoBoot
    /\ tally = NoTally
    /\ hazards = {}
    /\ aborted = FALSE
    /\ loop = LoopAtRest
    /\ hat = HatAtRest
    /\ feed \in {[FeedAtRest EXCEPT !.stream = s] : s \in Streams}

FillFrame ==
    UNCHANGED <<build, txd, lineLog, lastSend, delivered, lastRecv, paused, ctr, loop, hat,
                engineVars, hostVars>>

\* The next piece of the stream arrives in the UART queue; at > 0 puts its
\* at-th byte under watch
FeedArrive(at) ==
    LET piece == Piece(build, feed.stream[feed.next])
    IN  /\ ~rxFailed
        /\ Len(line) <= MaxQueued
        /\ at > 0 => feed.mark = 0
        /\ at <= Len(piece)
        /\ line' = line \o piece
        /\ feed' = [feed EXCEPT !.next = (@ % Len(feed.stream)) + 1,
                                !.mark = IF at > 0 THEN Len(rxd.RecvBuffer) + Len(line) + at
                                         ELSE @]
        /\ UNCHANGED <<rxd, rxFailed>>
        /\ FillFrame

\* The receiving host's loop calls Receive
FeedReceive(available, readOk) ==
    /\ ~rxFailed
    /\ \E r \in {Receive(build, rxd, line, "ok", available, readOk)} :
       LET pre == IF r.ok THEN FillRecvBuffer(rxd, line, available, readOk).d.RecvBuffer
                  ELSE << >>
           reads == ScanReads(build, pre, 0, [top |-> -1, skipped |-> 0])
       IN  /\ rxd' = r.d
           /\ line' = r.q
           /\ rxFailed' = ~r.ok
           /\ feed' = [feed EXCEPT !.pre = pre, !.top = reads.top, !.skipped = reads.skipped,
                                   !.out = r.out, !.start_offset = r.start_offset,
                                   !.ok = r.ok,
                                   !.mark = IF ~r.ok \/ @ <= r.start_offset THEN 0
                                            ELSE @ - r.start_offset]
    /\ FillFrame

FeedArrives == \E at \in {0, 1, kRecvBufferBytes} : FeedArrive(at)

FeedReceives == \E available \in {-1, Len(line)}, readOk \in BOOLEAN : FeedReceive(available, readOk)

NextFill == FeedArrives \/ FeedReceives

SpecFill == InitFill /\ [][NextFill]_vars

\* Bytes go on arriving while the queue has room, and Receive goes on being called
SpecFillFair == SpecFill /\ WF_vars(FeedArrives) /\ WF_vars(FeedReceives)

-----------------------------------------------------------------------------
(* SpecSend: the driver of a FileSender, which both sends and listens *)

\* The sizes the engine sends: an info packet, a full data packet
InfoSized == [i \in 1..16 |-> 3]
FullSized == [i \in 1..kPacketMaxBytes |-> IF i = 1 THEN 7 ELSE 0]

SendPayloads ==
    (SeqsUpTo(PayloadBytes, MaxPayloadLen + 1) \ {<< >>}) \cup {Oversize, InfoSized, FullSized}

InitSend ==
    /\ build \in {"armv8", "fallback"}
    /\ txd = NewWaveshare(kSenderAddr)
    /\ rxd = NewWaveshare(kMonitorAddress)
    /\ line = << >>
    /\ lineLog = << >>
    /\ lastSend = [data |-> << >>, ok |-> FALSE, frame |-> << >>]
    /\ delivered = << >>
    /\ lastRecv = [ok |-> TRUE, n |-> 0, start_offset |-> 0]
    /\ paused = FALSE
    /\ rxFailed = FALSE
    /\ ctr = NoExpansion
    /\ EngineAtRest
    /\ HostAtRest

\* Uplink.Send from FileSender::Loop or MakeOffer
SenderSend(data, cfg, wr) ==
    /\ LET r == Send(build, txd, data, cfg, wr)
       IN  /\ txd' = r.d
           /\ lastSend' = [data |-> data, ok |-> r.ok, frame |-> r.frame]
    /\ UNCHANGED <<build, rxd, line, lineLog, delivered, lastRecv, paused, rxFailed, ctr, loop, hat, feed, engineVars, hostVars>>

\* Uplink.Receive from MakeOffer or BackchannelCheck, nothing in the queue
SenderListen(cfg) ==
    /\ LET r == Receive(build, txd, << >>, cfg, 0, TRUE)
       IN  /\ txd' = r.d
           /\ lastRecv' = [ok |-> r.ok, n |-> Len(r.out), start_offset |-> r.start_offset]
    /\ UNCHANGED <<build, rxd, line, lineLog, lastSend, delivered, paused, rxFailed, ctr, loop, hat, feed, engineVars, hostVars>>

NextSend ==
    \/ \E data \in SendPayloads, cfg \in {"ok", "fail"}, wr \in {"ok", "error"} :
          SenderSend(data, cfg, wr)
    \/ \E cfg \in {"ok", "fail"} : SenderListen(cfg)

SpecSend == InitSend /\ [][NextSend]_vars

-----------------------------------------------------------------------------
(* SpecExpand: one expansion of a truncated block id *)

\* Last-seen ids: around the byte boundaries, the examples, the ends of uint32_t
LastIds ==
    { U32(0, 0), U32(0, 1), U32(0, 127), U32(0, 128), U32(0, 255), U32(0, 256),
      U32(0, 291), U32(0, 510), U32(0, 65535), U32(1, 0), U32(32767, 65535),
      U32(32768, 0), U32(65535, 65408), U32(65535, 65535) }

InitExpand ==
    /\ build = "fallback"
    /\ txd = NewWaveshare(kSenderAddr)
    /\ rxd = NewWaveshare(kMonitorAddress)
    /\ line = << >>
    /\ lineLog = << >>
    /\ lastSend = [data |-> << >>, ok |-> FALSE, frame |-> << >>]
    /\ delivered = << >>
    /\ lastRecv = [ok |-> TRUE, n |-> 0, start_offset |-> 0]
    /\ paused = FALSE
    /\ rxFailed = FALSE
    /\ \E last \in LastIds, low8 \in 0..255 :
          ctr = [last |-> last, low8 |-> low8, done |-> FALSE, result |-> U32(0, 0)]
    /\ EngineAtRest
    /\ HostAtRest

Expand ==
    /\ ~ctr.done
    /\ ctr' = [ctr EXCEPT !.done = TRUE,
                          !.result = ExpandFromTruncated(ctr.last, ctr.low8)]
    /\ UNCHANGED <<frameVars, engineVars, loop, hat, feed, hostVars>>

NextExpand == Expand

SpecExpand == InitExpand /\ [][NextExpand]_vars

\* Signed offsets from `last` of the values whose low 8 bits are low8, out to
\* beyond the nearest ones on either side
Candidates(last, low8) ==
    {off \in -600..600 : (last.lo + off) % 256 = low8}

Abs(x) == IF x < 0 THEN -x ELSE x

\* C7: the result has low 8 bits low8 and no value with those low bits is nearer
\* to last; of two equally near values it is the one ahead of last.  The two
\* examples: (0x123, 0x01) gives 0x101 and (0x1FE, 0x01) gives 0x201.
C7_ExpandNearest ==
    ctr.done =>
        /\ ctr.result.lo % 256 = ctr.low8
        /\ \E off \in Candidates(ctr.last, ctr.low8) :
              /\ ctr.result = AddU32(ctr.last, off)
              /\ \A other \in Candidates(ctr.last, ctr.low8) :
                    \/ Abs(off) < Abs(other)
                    \/ (Abs(off) = Abs(other) /\ off >= other)
        /\ (ctr.last = U32(0, 291) /\ ctr.low8 = 1) => ctr.result = U32(0, 257)
        /\ (ctr.last = U32(0, 510) /\ ctr.low8 = 1) => ctr.result = U32(0, 513)

\* C7 witness: an expansion that steps back across the lower end of uint32_t
C7_Witness ==
    /\ ctr.done
    /\ ctr.last = U32(0, 0)
    /\ ctr.low8 = 255
    /\ ctr.result = U32(65535, 65535)

-----------------------------------------------------------------------------
(* Spec: a FileReceiver and the packets its Uplink hands to it *)

\* The hash of the info packet, and the layout it is computed over
RECURSIVE IntegrityHash(_)
IntegrityHash(payload) ==
    IF payload = << >> THEN 1
    ELSE (31 * IntegrityHash(SubSeq(payload, 1, Len(payload) - 1)) + payload[Len(payload)] + 1) % 65521

InnerPayload(name, data) == << Len(name) >> \o name \o << 0 >> \o data

\* Info packets made for the file the sender prepared: with the hash of the
\* inner payload and the lengths of what the sender compressed; with the
\* sender's own FileHash and DecompressedBytes; and one for a file of a
\* single block
InfosFor(s) ==
    LET inner == InnerPayload(s.Filename, Files[s.file].data)
    IN  { [file_bytes |-> s.CompressedFileBytes, hash |-> IntegrityHash(inner),
           next_block_id |-> U32(0, 0), decompressed_bytes |-> Len(Files[s.file].data)],
          [file_bytes |-> s.CompressedFileBytes, hash |-> s.FileHash,
           next_block_id |-> U32(0, 0), decompressed_bytes |-> s.DecompressedBytes],
          [file_bytes |-> kBlockBytes, hash |-> IntegrityHash(inner),
           next_block_id |-> U32(0, 0), decompressed_bytes |-> Len(inner)] }

ValidInfo(info) == info.file_bytes > 0 /\ info.decompressed_bytes >= 2

ChangedInfo(r, info) ==
    r.FileBytes # info.file_bytes \/ r.FileHash # info.hash
        \/ r.DecompressedBytes # info.decompressed_bytes

Completions(events) == SelectSeq(events, LAMBDA e : e.done)

\* Where the receiver stands with its file
Status(r) ==
    IF r.Events = << >> /\ r.FileBytes = 0 THEN "fresh"
    ELSE IF r.FileBytes = 0 THEN "idle"
    ELSE IF ~r.TransferComplete THEN "progress"
    ELSE IF r.Events[Len(r.Events)].done THEN "complete"
    ELSE "failed"

InitEngine ==
    /\ lib \in {"strict", "lenient"}
    /\ compensate \in BOOLEAN
    /\ (compensate => lib = "lenient")
    /\ beyond \in BOOLEAN
    /\ (beyond => compensate)
    /\ \E f \in 1..Len(Files) : snd = FileSenderInitialize(f)
    /\ rcv = NewFileReceiver
    /\ idle = IdleCap
    /\ running = TRUE
    /\ fed = 0
    /\ restarts = 0
    /\ step = NoStep
    /\ run = NoRun

Init ==
    /\ build = "fallback"
    /\ txd = NewWaveshare(kSenderAddr)
    /\ rxd = NewWaveshare(kMonitorAddress)
    /\ line = << >>
    /\ lineLog = << >>
    /\ lastSend = [data |-> << >>, ok |-> FALSE, frame |-> << >>]
    /\ delivered = << >>
    /\ lastRecv = [ok |-> TRUE, n |-> 0, start_offset |-> 0]
    /\ paused = FALSE
    /\ rxFailed = FALSE
    /\ ctr = NoExpansion
    /\ InitEngine
    /\ HostAtRest

\* The iteration was given an info packet that OnFileInfo did not ignore
AcceptedInfo(st) == st.kind = "info" /\ ValidInfo(st.pkt.info)

\* The packet is one that OnFileInfo or OnBlock looks into
Handled(pkt) ==
    \/ pkt.bytes = 16 /\ ValidInfo(pkt.info)
    \/ pkt.bytes = kPacketMaxBytes

\* History of the transfer attempt: which info packet started it, from what
\* state, and the blocks of its file that were handed in for it
RunAfter(pkt) ==
    LET accepting == pkt.bytes = 16 /\ ValidInfo(pkt.info) /\ ChangedInfo(rcv, pkt.info)
        early == {rcv.BufferedBlocks[i].body.id : i \in 1..Len(rcv.BufferedBlocks)}
    IN  IF accepting
        THEN [infos |-> run.infos + 1, accepted |-> run.accepted + 1, prior |-> Status(rcv),
              info |-> pkt.info, file |-> snd.file, ids |-> early, mark |-> Len(rcv.Events),
              disturbed |-> \E i \in 1..Len(rcv.BufferedBlocks) :
                                rcv.BufferedBlocks[i].body.file # snd.file]
        ELSE IF pkt.bytes = 16 /\ ValidInfo(pkt.info)
        THEN [run EXCEPT !.infos = @ + 1]
        ELSE IF pkt.bytes = kPacketMaxBytes
        THEN [run EXCEPT !.ids = IF pkt.body.file = run.file THEN @ \cup {pkt.body.id} ELSE @,
                         !.disturbed = @ \/ (run.accepted > 0 /\ pkt.body.file # run.file)]
        ELSE run

\* One iteration of FileReceiver::Loop in which Receive dispatches pkt
Dispatch(pkt, luck, crash) ==
    /\ running
    /\ ~rcv.Crashed
    /\ rcv' = IdleCheck(LoopCallback(lib, rcv, pkt, luck, crash), 0)
    /\ idle' = 0
    /\ fed' = IF Handled(pkt) THEN fed + 1 ELSE fed
    /\ step' = IF ~Handled(pkt) THEN step
               ELSE IF pkt.bytes = 16
               THEN [kind |-> "info", pkt |-> pkt, buffered |-> rcv.BufferedBlocks,
                     nevents |-> Len(rcv.Events),
                     afterIdle |-> step.reset \/ (step.afterIdle /\ ~AcceptedInfo(step)),
                     reset |-> FALSE, dt |-> 0]
               ELSE [NoStep EXCEPT !.kind = "data",
                                   !.afterIdle = step.reset \/ (step.afterIdle /\ ~AcceptedInfo(step))]
    /\ run' = RunAfter(pkt)
    /\ UNCHANGED <<hostVars, frameVars, ctr, hat, feed, lib, compensate, beyond, snd, running, restarts>>

\* The iterations Spec takes: MaxPackets packets that are looked into
Iterate(pkt, luck, crash) ==
    /\ Handled(pkt) => fed < MaxPackets
    /\ Dispatch(pkt, luck, crash)
    /\ UNCHANGED loop

RecvInfo(info, luck, crash) == Iterate(InfoPacket(info), luck, crash)

RecvData(block_id, luck) ==
    /\ snd.ok
    /\ Iterate(DataPacket(snd.file, block_id, IF compensate THEN 1 ELSE 0), luck, FALSE)

RecvOther == Iterate(OtherPacket, FALSE, FALSE)

\* One iteration in which Receive dispatches nothing, elapsed seconds after
\* the one before.  While no file is known the check cannot fire whatever dt
\* is, and dt is kept at IdleCap
Tick(elapsed) ==
    /\ running
    /\ ~rcv.Crashed
    /\ LET dt == IF idle + elapsed > IdleCap \/ rcv.FileBytes = 0 THEN IdleCap ELSE idle + elapsed
       IN  /\ idle' = dt
           /\ rcv' = IdleCheck(rcv, dt)
           /\ step' = [NoStep EXCEPT !.kind = "tick",
                                      !.afterIdle = step.reset \/ (step.afterIdle /\ ~AcceptedInfo(step)),
                                      !.reset = dt > timeout_sec /\ rcv.FileBytes # 0,
                                      !.dt = dt]
           /\ run' = [run EXCEPT !.disturbed = @ \/ (dt > timeout_sec /\ rcv.FileBytes # 0)]
    /\ UNCHANGED <<hostVars, frameVars, ctr, loop, hat, feed, lib, compensate, beyond, snd, running, fed, restarts>>

\* Receive returns false where it could have dispatched a packet: the loop breaks
ReceiveFails ==
    /\ running
    /\ ~rcv.Crashed
    /\ fed < MaxPackets
    /\ running' = FALSE
    /\ UNCHANGED <<hostVars, frameVars, ctr, loop, hat, feed, lib, compensate, beyond, snd, rcv, idle, fed, restarts, step, run>>

\* The sending side is started again, with the next file
SenderStart(f) ==
    /\ restarts < MaxRestarts
    /\ fed > 0
    /\ f = snd.file + 1
    /\ snd' = FileSenderInitialize(f)
    /\ restarts' = restarts + 1
    /\ UNCHANGED <<hostVars, frameVars, ctr, loop, hat, feed, lib, compensate, beyond, rcv, idle, running, fed, step, run>>

\* What the replay's undefined behaviour can come to, where it can happen
Outcomes == IF rcv.FileBytes = 0 /\ rcv.BufferedBlocks # << >> THEN BOOLEAN ELSE {FALSE}

\* Ids of the blocks the sender gets to: as many as its largest file has
BlockIds ==
    LET n == CHOOSE n \in {BlockCount(CompressedSize(Files[f].data)) : f \in 1..Len(Files)} :
                 \A f \in 1..Len(Files) : BlockCount(CompressedSize(Files[f].data)) <= n
    IN  0..(n - 1)

Next ==
    \/ \E info \in InfosFor(snd), crash \in Outcomes : RecvInfo(info, beyond, crash)
    \/ \E block_id \in BlockIds : RecvData(block_id, beyond)
    \/ RecvOther
    \/ \E elapsed \in {IdleCap - 1, IdleCap} : Tick(elapsed)
    \/ ReceiveFails
    \/ \E f \in 2..Len(Files) : SenderStart(f)

Spec == Init /\ [][Next]_vars

-----------------------------------------------------------------------------
(* SpecInfo: the receiving engine with info packets that OnFileInfo ignores  *)
(* among its input                                                         *)

\* Info packets with a length OnFileInfo refuses; their other fields are
\* ones no packet of InfosFor has
MalformedInfos ==
    {info \in [file_bytes : {0, 2 * kBlockBytes}, hash : {1}, next_block_id : {U32(0, 7)},
               decompressed_bytes : {0, 1, 2}] : ~ValidInfo(info)}

\* One iteration of FileReceiver::Loop in which Receive dispatches a malformed info packet
RecvMalformed(info) ==
    /\ running
    /\ ~rcv.Crashed
    /\ rcv' = IdleCheck(LoopCallback(lib, rcv, InfoPacket(info), FALSE, FALSE), 0)
    /\ idle' = 0
    /\ step' = [NoStep EXCEPT !.kind = "malformed", !.pkt = InfoPacket(info),
                               !.buffered = rcv.BufferedBlocks, !.nevents = Len(rcv.Events),
                               !.afterIdle = step.reset \/ (step.afterIdle /\ ~AcceptedInfo(step))]
    /\ UNCHANGED <<hostVars, frameVars, ctr, loop, hat, feed, lib, compensate, beyond, snd, running, fed,
                   restarts, run>>

NextInfo ==
    \/ \E info \in InfosFor(snd), crash \in Outcomes : RecvInfo(info, beyond, crash)
    \/ \E block_id \in BlockIds : RecvData(block_id, beyond)
    \/ \E elapsed \in {IdleCap - 1, IdleCap} : Tick(elapsed)
    \/ \E info \in MalformedInfos : RecvMalformed(info)

SpecInfo == Init /\ [][NextInfo]_vars

-----------------------------------------------------------------------------
(* SpecReplay: a receiver that hears every packet of a sender whose data     *)
(* packets carry block_id, counted from 0 (loop.block_id), and whose info    *)
(* packets carry the id of the block it sends next.  The info packet may     *)
(* come after any number of data packets.                                    *)

\* The info packet of the file the sender prepared, sent where its next block is id
TrueInfo(s, id) ==
    [file_bytes |-> s.CompressedFileBytes,
     hash |-> IntegrityHash(InnerPayload(s.Filename, Files[s.file].data)),
     next_block_id |-> U32FromNat(id),
     decompressed_bytes |-> Len(Files[s.file].data)]

\* The run is followed up to the sender's last info packet
ReplayData ==
    /\ snd.ok
    /\ loop.block_id < MaxBlocks
    /\ run.infos < MaxInfos
    /\ Dispatch(DataPacket(snd.file, loop.block_id, IF compensate THEN 1 ELSE 0), beyond, FALSE)
    /\ loop' = [loop EXCEPT !.block_id = @ + 1]

ReplayInfo ==
    /\ snd.ok
    /\ run.infos < MaxInfos
    /\ Dispatch(InfoPacket(TrueInfo(snd, loop.block_id)), beyond, FALSE)
    /\ UNCHANGED loop

NextReplay ==
    \/ ReplayData
    \/ ReplayInfo

SpecReplay == Init /\ [][NextReplay]_vars

-----------------------------------------------------------------------------
(* SpecSerial: Initialize and Shutdown called on a RawSerialPort *)

\* The frame, counter and engine variables in the specifications that do not move them
RadioAtRest ==
    /\ build = "fallback"
    /\ txd = NewWaveshare(kSenderAddr)
    /\ rxd = NewWaveshare(kMonitorAddress)
    /\ line = << >>
    /\ lineLog = << >>
    /\ lastSend = [data |-> << >>, ok |-> FALSE, frame |-> << >>]
    /\ delivered = << >>
    /\ lastRecv = [ok |-> TRUE, n |-> 0, start_offset |-> 0]
    /\ paused = FALSE
    /\ rxFailed = FALSE
    /\ ctr = NoExpansion
    /\ EngineAtRest

\* Baud rates asked for: those of the switch, and some that are not in it
AskedBaudrates == {Baudrates[i] : i \in 1..Len(Baudrates)} \cup {0, 7200, 14400, 28800, 31250, 56000, 128000, 256000}

InitSerial ==
    /\ RadioAtRest
    /\ port = NewRawSerialPort
    /\ call = NoCall
    /\ role = "receiver"
    /\ obj = NewEngine
    /\ tasks = << >>
    /\ main = MainIdle
    /\ boot = NoBoot
    /\ tally = NoTally
    /\ hazards = {}
    /\ aborted = FALSE
    /\ loop = LoopAtRest
    /\ hat = HatAtRest
    /\ feed = FeedAtRest

SerialInitialize(baudrate, openOk) ==
    LET r == RawSerialPortInitialize(port, baudrate, openOk)
    IN  /\ port' = r.p
        /\ call' = [baudrate |-> baudrate, openOk |-> openOk, done |-> TRUE, ret |-> r.ret,
                    fd |-> r.p.fd]
        /\ UNCHANGED <<frameVars, ctr, loop, hat, feed, engineVars, role, obj, tasks, main, boot, tally,
                       hazards, aborted>>

SerialShutdown ==
    /\ call.done
    /\ port' = RawSerialPortShutdown(port)
    /\ UNCHANGED <<frameVars, ctr, loop, hat, feed, engineVars, call, role, obj, tasks, main, boot, tally,
                   hazards, aborted>>

NextSerial ==
    \/ \E baudrate \in AskedBaudrates, openOk \in BOOLEAN : SerialInitialize(baudrate, openOk)
    \/ SerialShutdown

SpecSerial == InitSerial /\ [][NextSerial]_vars

\* C19 as claimed: Initialize returns false when the baud rate is not supported
\* or the device cannot be opened, and when it returns true the port holds a
\* valid descriptor.
C19_SerialInitializeResult ==
    call.done =>
        /\ (BaudrateToBaud(call.baudrate) < 0 \/ ~call.openOk) => ~call.ret
        /\ call.ret => call.fd >= 0

-----------------------------------------------------------------------------
(* SpecDriver: Initialize, SetChannel, Send and Receive called on a Waveshare *)
(* object, in any order once Initialize has returned true, with the failures *)
(* the serial port and the module can answer with.                            *)

\* What fails in one driver call: nothing, the n-th open() of the port, the
\* echo of the n-th configuration write (applied: the module took the
\* command all the same), or the n-th RSSI read
DriverPlans(opens, cfgs, rssis) ==
    {[what |-> "none", at |-> 0, how |-> "exact", applied |-> TRUE]}
    \cup {[what |-> "open", at |-> n, how |-> "exact", applied |-> TRUE] : n \in opens}
    \cup {[what |-> "echo", at |-> n, how |-> "differs", applied |-> a] :
              n \in cfgs, a \in BOOLEAN}
    \cup {[what |-> "rssi", at |-> n, how |-> "exact", applied |-> TRUE] : n \in rssis}

InitializePlans ==
    DriverPlans({1, 2, NumOpens}, {1, 2, NumConfigs}, {1, NumRssi})
        \cup {[what |-> "gpio", at |-> 1, how |-> "exact", applied |-> TRUE]}

CallPlans == DriverPlans({1, 2}, {1}, {})

\* RSSI readings of a scan: silence, or a peak at the first, a middle or the last read
Patterns ==
    {[peak |-> 0, high |-> 0, low |-> 0]}
        \cup {[peak |-> j, high |-> 200, low |-> 90] : j \in {1, 5, retries}}

\* Operating channels asked for: one that the scan probes and one that it does not
AskedChannels == {18, 32}

\* Initialize is run with every channel and every pattern of readings where
\* nothing fails, and with every failure on one channel and one pattern
InitializeInputs ==
    {[channel |-> c, plan |-> pl, pat |-> pt] :
         c \in AskedChannels, pl \in {pl \in InitializePlans : pl.what = "none"}, pt \in Patterns}
    \cup {[channel |-> 18, plan |-> pl, pat |-> [peak |-> 5, high |-> 200, low |-> 90]] :
              pl \in InitializePlans}

InitDriver ==
    /\ RadioAtRest
    /\ port = NewRawSerialPort
    /\ call = NoCall
    /\ role = "sender"
    /\ obj = NewEngine
    /\ tasks = << >>
    /\ main = MainIdle
    /\ boot = NoBoot
    /\ tally = NoTally
    /\ hazards = {}
    /\ aborted = FALSE
    /\ loop = LoopAtRest
    /\ hat = HatAtRest
    /\ feed = FeedAtRest

DriverFrame == UNCHANGED <<frameVars, ctr, engineVars, loop, feed, hostVars>>

\* Initialize is called on a driver that is not up, or after a call returned false
DriverInitialize(channel, transmit_addr, plan, pat) ==
    /\ hat.calls < MaxDriverCalls
    /\ ~hat.ready \/ ~hat.last.ret
    /\ hat' = HatInitialize(hat, channel, transmit_addr, plan, pat)
    /\ DriverFrame

DriverSetChannel(channel, plan) ==
    /\ hat.ready
    /\ hat.calls < MaxDriverCalls
    /\ hat' = HatSetChannelCall(hat, channel, plan)
    /\ DriverFrame

DriverSend(plan, wr) ==
    /\ hat.ready
    /\ hat.calls < MaxDriverCalls
    /\ hat' = HatSend(hat, plan, wr)
    /\ DriverFrame

DriverReceive(plan, readOk, all) ==
    /\ hat.ready
    /\ hat.calls < MaxDriverCalls
    /\ hat' = HatReceive(hat, plan, readOk, all)
    /\ DriverFrame

\* A byte comes in from the module while the port is open
DriverArrive ==
    /\ hat.ready
    /\ hat.fd
    /\ hat.arrived < MaxArrivals
    /\ hat' = [hat EXCEPT !.pending = @ + 1, !.arrived = @ + 1]
    /\ DriverFrame

NextDriver ==
    \/ \E transmit_addr \in {kSenderAddr, kMonitorAddress}, in \in InitializeInputs :
          DriverInitialize(in.channel, transmit_addr, in.plan, in.pat)
    \/ \E channel \in AskedChannels, plan \in CallPlans : DriverSetChannel(channel, plan)
    \/ \E plan \in CallPlans, wr \in BOOLEAN : DriverSend(plan, wr)
    \/ \E plan \in CallPlans, readOk \in BOOLEAN, all \in BOOLEAN :
          DriverReceive(plan, readOk, all)
    \/ DriverArrive

SpecDriver == InitDriver /\ [][NextDriver]_vars

-----------------------------------------------------------------------------
(* SpecEmit: FileSender::Loop from its first wirehair_encode on, for each of  *)
(* the files                                                                  *)

InitEmit ==
    /\ RadioAtRest
    /\ port = NewRawSerialPort
    /\ call = NoCall
    /\ role = "sender"
    /\ obj = NewEngine
    /\ tasks = << >>
    /\ main = MainIdle
    /\ boot = NoBoot
    /\ tally = NoTally
    /\ hazards = {}
    /\ aborted = FALSE
    /\ hat = HatAtRest
    /\ feed = FeedAtRest
    /\ \E f \in 1..Len(Files) :
          /\ FileSenderInitialize(f).ok
          /\ loop = LoopEntry(f)

EmitFirstEncode(ok) ==
    /\ loop.pc = "encode"
    /\ loop' = LoopEncodeFirst(loop, ok)
    /\ UNCHANGED <<frameVars, ctr, engineVars, hat, feed, hostVars>>

EmitBlock(sent, ok) ==
    /\ loop.pc = "loop"
    /\ loop.sent < MaxEmits
    /\ loop' = LoopSendBlock(loop, sent, ok)
    /\ UNCHANGED <<frameVars, ctr, engineVars, hat, feed, hostVars>>

\* The loop is left: Terminated, a failed BackchannelCheck, or 100 percent
EmitStop ==
    /\ loop.pc = "loop"
    /\ loop' = [loop EXCEPT !.pc = "exited"]
    /\ UNCHANGED <<frameVars, ctr, engineVars, hat, feed, hostVars>>

NextEmit ==
    \/ \E ok \in BOOLEAN : EmitFirstEncode(ok)
    \/ \E sent \in BOOLEAN, ok \in BOOLEAN : EmitBlock(sent, ok)
    \/ EmitStop

SpecEmit == InitEmit /\ [][NextEmit]_vars

\* The number of the data packet sent last, from 0
LastSent == loop.sent - 1

\* C22 as claimed: the k-th data packet is the byte k mod 256 and then the
\* block wirehair_encode made for id k, byte for byte; block_id is the number
\* of data packets sent so far.
C22_PacketCarriesBlock ==
    /\ loop.block_id = loop.sent
    /\ loop.sent > 0
       => /\ loop.last[1] = IdByte(LastSent % 256)
          /\ Len(loop.last) = 1 + EncodedBytes(loop.CompressedFileBytes, LastSent)
          /\ \A j \in 2..Len(loop.last) : loop.last[j] = Encoded(LastSent, j - 2)

\* C23 as claimed: the data packet of a block id that is a multiple of 32 was
\* preceded by an info packet, and no other data packet was.
C23_InfoEvery32 ==
    loop.sent > 0 => (loop.before = "info" <=> LastSent % 32 = 0)

\* C24 as claimed: a data packet handed to Uplink.Send is 235 bytes long and
\* an info packet 16, whatever wirehair_encode reported as the block's length.
C24_PacketLengths ==
    loop.sent > 0 => Len(loop.last) \in {kPacketMaxBytes, 4 + 4 + 4 + 4}

-----------------------------------------------------------------------------
(* SpecLife: one FileSender or FileReceiver, the thread that calls its        *)
(* Initialize, Shutdown and destructor, and the background tasks.  A call is  *)
(* taken statement by statement where another thread can run in between.      *)

AliveTasks == {t \in 1..Len(tasks) : tasks[t].pc # "exited"}

\* flag: Terminated as the task left it when it exited; round: which of two
\* successive rounds of a loop the task is in
NewTask(pc) == [pc |-> pc, cause |-> "none", flag |-> FALSE, joins |-> 0, round |-> 0]

Percentages == {50, 100}

\* The plans an engine's Initialize is run with: each kind of failure at its
\* first and at its last place
LifePlans ==
    {pl \in Plans : pl.at \in {0, 1} \/ (pl.what = "open" /\ pl.at = NumOpens)
                       \/ (pl.what = "echo" /\ pl.at = NumConfigs)
                       \/ (pl.what = "rssi" /\ pl.at = NumRssi)}

InitLife ==
    /\ RadioAtRest
    /\ port = NewRawSerialPort
    /\ call = NoCall
    /\ role \in {"sender", "receiver"}
    /\ obj = NewEngine
    /\ tasks = << >>
    /\ main = MainIdle
    /\ boot = NoBoot
    /\ tally = NoTally
    /\ hazards = {}
    /\ aborted = FALSE
    /\ loop = LoopAtRest
    /\ hat = HatAtRest
    /\ feed = FeedAtRest

\* What the calling thread's access to the driver or the codec races with
Racing(what) == IF AliveTasks # {} THEN {what} ELSE {}

Returned == [main EXCEPT !.op = "none", !.pc = "none", !.hist = Append(@, main.op)]

Begin(op) ==
    /\ ~aborted
    /\ ~obj.destroyed
    /\ main.op = "none"
    /\ main' = [main EXCEPT !.op = op, !.meddled = FALSE,
                            !.pc = IF op = "Initialize"
                                   THEN (IF role = "sender" THEN "encoder" ELSE "shutdown_uplink")
                                   ELSE (IF role = "sender" THEN "flag" ELSE "shutdown_uplink")]
    /\ boot' = NoBoot
    /\ UNCHANGED <<frameVars, ctr, loop, hat, feed, engineVars, port, call, role, obj, tasks, tally,
                   hazards, aborted>>

BeginInitialize == Len(main.hist) < MaxCalls /\ Begin("Initialize")

BeginShutdown == Len(main.hist) < MaxCalls /\ Begin("Shutdown")

\* The destructor: Shutdown, then the members are destroyed
BeginDestroy == Begin("Destroy")

\* FileSender::Shutdown: Terminated = true
ShutdownFlag ==
    /\ ~aborted
    /\ main.pc = "flag"
    /\ obj' = [obj EXCEPT !.Terminated = TRUE]
    /\ main' = [main EXCEPT !.pc = "join"]
    /\ UNCHANGED <<frameVars, ctr, loop, hat, feed, engineVars, port, call, role, tasks, boot, tally,
                   hazards, aborted>>

\* FileSender::Shutdown: JoinThread(Thread) returns once the task has exited
ShutdownJoin ==
    /\ ~aborted
    /\ main.pc = "join"
    /\ obj.Thread # 0 => obj.Thread \notin AliveTasks
    /\ tasks' = IF obj.Thread = 0 THEN tasks
                ELSE [tasks EXCEPT ![obj.Thread].joins = @ + 1]
    /\ obj' = [obj EXCEPT !.Thread = 0]
    /\ main' = [main EXCEPT !.pc = "shutdown_uplink"]
    /\ UNCHANGED <<frameVars, ctr, loop, hat, feed, engineVars, port, call, role, boot, tally, hazards, aborted>>

\* Uplink.Shutdown() of either Shutdown
ShutdownUplink ==
    /\ ~aborted
    /\ main.pc = "shutdown_uplink"
    /\ obj' = [obj EXCEPT !.Uplink = WaveshareShutdown(@)]
    /\ tally' = [tally EXCEPT !.closes = IF obj.Uplink.Serial.fd # -1 THEN @ + 1 ELSE @]
    /\ hazards' = hazards \cup Racing("driver shut down while a task runs")
    /\ main' = [main EXCEPT !.pc = "shutdown_codec"]
    /\ UNCHANGED <<frameVars, ctr, loop, hat, feed, engineVars, port, call, role, tasks, boot, aborted>>

\* wirehair_free and the null assignment that end either Shutdown
ShutdownCodec ==
    /\ ~aborted
    /\ main.pc = "shutdown_codec"
    /\ obj' = [obj EXCEPT !.Codec = "null"]
    /\ tally' = [tally EXCEPT !.frees = IF obj.Codec # "null" THEN @ + 1 ELSE @]
    /\ hazards' = hazards \cup (IF obj.Codec # "null"
                                THEN Racing("codec freed while a task runs") ELSE {})
    /\ main' = IF main.op = "Shutdown" THEN Returned
               ELSE IF main.op = "Destroy" THEN [main EXCEPT !.pc = "members"]
               ELSE [main EXCEPT !.pc = "uplink_init"]
    /\ UNCHANGED <<frameVars, ctr, loop, hat, feed, engineVars, port, call, role, tasks, boot, aborted>>

\* FileSender::Initialize up to the encoder: res is "zstd" for a compression
\* error, "encoder" when wirehair_encoder_create returns null, "ok" otherwise
InitEncoder(res) ==
    /\ ~aborted
    /\ main.pc = "encoder"
    /\ obj' = [obj EXCEPT !.Codec = IF res = "zstd" THEN @
                                    ELSE IF res = "encoder" THEN "null" ELSE "live"]
    /\ hazards' = hazards \cup (IF res = "zstd" THEN {}
                                ELSE Racing("codec re-created while a task runs"))
    /\ main' = IF res = "ok" THEN [main EXCEPT !.pc = "uplink_init"] ELSE Returned
    /\ boot' = IF res = "ok" THEN boot
               ELSE [NoBoot EXCEPT !.engine = "false"]
    /\ UNCHANGED <<frameVars, ctr, loop, hat, feed, engineVars, port, call, role, tasks, tally, aborted>>

\* Uplink.Initialize of either Initialize, and the return false behind it
InitUplink(plan) ==
    LET r == WaveshareInitialize(obj.Uplink, plan)
    IN  /\ ~aborted
        /\ main.pc = "uplink_init"
        /\ obj' = [obj EXCEPT !.Uplink = r.d]
        /\ tally' = [tally EXCEPT !.closes = IF obj.Uplink.Serial.fd # -1 THEN @ + 1 ELSE @]
        /\ hazards' = hazards \cup Racing("driver initialized while a task runs")
        /\ boot' = [what |-> plan.what, at |-> plan.at, ret |-> r.ret,
                    engine |-> IF r.ret THEN "pending" ELSE "false", started |-> FALSE]
        /\ main' = IF r.ret THEN [main EXCEPT !.pc = "start"] ELSE Returned
        /\ UNCHANGED <<frameVars, ctr, loop, hat, feed, engineVars, port, call, role, tasks, aborted>>

\* Terminated = false and the new std::thread; the handle held so far, if
\* any, is released next
InitStart ==
    /\ ~aborted
    /\ main.pc = "start"
    /\ tasks' = Append(tasks, NewTask(IF role = "sender" THEN "offer" ELSE "loop"))
    /\ obj' = [obj EXCEPT !.Terminated = FALSE, !.Thread = Len(tasks) + 1]
    /\ boot' = [boot EXCEPT !.engine = "true", !.started = TRUE]
    /\ main' = IF obj.Thread # 0 THEN [main EXCEPT !.pc = "release"] ELSE Returned
    /\ UNCHANGED <<frameVars, ctr, loop, hat, feed, engineVars, port, call, role, tally, hazards, aborted>>

\* The assignment to Thread destroys the std::thread it held, which was never
\* joined: std::terminate
InitRelease ==
    /\ ~aborted
    /\ main.pc = "release"
    /\ aborted' = TRUE
    /\ UNCHANGED <<frameVars, ctr, loop, hat, feed, engineVars, port, call, role, obj, tasks, main, boot,
                   tally, hazards>>

\* The members are destroyed: a std::thread still held was never joined
DestroyMembers ==
    /\ ~aborted
    /\ main.pc = "members"
    /\ aborted' = (obj.Thread # 0)
    /\ obj' = IF obj.Thread # 0 THEN obj ELSE [obj EXCEPT !.destroyed = TRUE]
    /\ main' = IF obj.Thread # 0 THEN main ELSE Returned
    /\ UNCHANGED <<frameVars, ctr, loop, hat, feed, engineVars, port, call, role, tasks, boot, tally, hazards>>

\* A step of task t from position pc
At(t, pc) == ~aborted /\ t \in 1..Len(tasks) /\ tasks[t].pc = pc

Goto(t, pc) ==
    tasks' = [tasks EXCEPT ![t].pc = pc, ![t].round = IF pc = tasks[t].pc THEN 1 - @ ELSE 0]

\* What stays as it is in a step of a task
TaskFrame ==
    /\ main' = IF main.op = "none" THEN main ELSE [main EXCEPT !.meddled = TRUE]
    /\ UNCHANGED <<frameVars, ctr, loop, hat, feed, engineVars, port, call, role, boot, tally, aborted>>

\* The task calls into Uplink
UsesDriver ==
    hazards' = hazards \cup (IF obj.Uplink.gpio THEN {}
                             ELSE {"driver used by a task after its shutdown"})

\* FileReceiver::Loop: one iteration.  got is what Receive does: "fail", or
\* it dispatches nothing, an info packet or a data packet.  The receiver
\* never switches the address, so Receive goes straight to the descriptor
ReceiverLoop(t, got) ==
    /\ At(t, "loop")
    /\ role = "receiver"
    /\ TaskFrame
    /\ IF obj.Terminated
       THEN /\ tasks' = [tasks EXCEPT ![t].pc = "exited", ![t].cause = "flag",
                                              ![t].flag = TRUE, ![t].round = 0]
            /\ UNCHANGED <<obj, hazards>>
       ELSE /\ UsesDriver
            /\ obj.Uplink.Serial.fd = -1 => got = "fail"
            /\ IF got = "fail"
               THEN /\ tasks' = [tasks EXCEPT ![t].pc = "exited", ![t].cause = "error",
                                              ![t].flag = obj.Terminated, ![t].round = 0]
                    /\ obj' = obj
               ELSE /\ Goto(t, "loop")
                    /\ obj' = IF got = "info" THEN [obj EXCEPT !.Codec = "live"] ELSE obj

\* The sender's task returns from Loop: term_scope sets Terminated
SenderExit(t, cause) ==
    /\ tasks' = [tasks EXCEPT ![t].pc = "exited", ![t].cause = cause, ![t].flag = TRUE,
                              ![t].round = 0]
    /\ obj' = [obj EXCEPT !.Terminated = TRUE]

\* MakeOffer: the head of the outer loop and the Send of the offer
OfferSend(t) ==
    /\ At(t, "offer")
    /\ TaskFrame
    /\ IF obj.Terminated
       THEN SenderExit(t, "flag") /\ hazards' = hazards
       ELSE Goto(t, "wait") /\ UsesDriver /\ obj' = obj

\* MakeOffer: one round of the inner loop; late is whether the quarter second is over
OfferWait(t, got, late) ==
    /\ At(t, "wait")
    /\ TaskFrame
    /\ IF obj.Terminated
       THEN Goto(t, "offer_timeout") /\ UNCHANGED <<obj, hazards>>
       ELSE /\ UsesDriver
            /\ IF got = "fail" THEN SenderExit(t, "error")
               ELSE IF got = "ack" THEN Goto(t, "channel") /\ obj' = obj
               ELSE /\ obj' = [obj EXCEPT !.Terminated = (@ \/ got = "invalid")]
                    /\ Goto(t, IF late THEN "offer_timeout" ELSE "wait")

\* MakeOffer: the 15 s check behind the inner loop
OfferTimeout(t, late) ==
    /\ At(t, "offer_timeout")
    /\ TaskFrame
    /\ hazards' = hazards
    /\ IF late THEN SenderExit(t, "error") ELSE Goto(t, "offer") /\ obj' = obj

\* Loop: Uplink.SetChannel(selected_channel)
LoopSetChannel(t, ok) ==
    /\ At(t, "channel")
    /\ TaskFrame
    /\ UsesDriver
    /\ IF ok THEN Goto(t, "encode") /\ obj' = obj ELSE SenderExit(t, "error")

\* Loop: the first wirehair_encode
LoopFirstEncode(t, ok) ==
    /\ At(t, "encode")
    /\ TaskFrame
    /\ hazards' = hazards
    /\ IF ok THEN Goto(t, "top") /\ obj' = obj ELSE SenderExit(t, "error")

\* The head of the loop without its test of Terminated
LoopTopIgnoresFlag(t, due) ==
    /\ At(t, "top")
    /\ TaskFrame
    /\ hazards' = hazards
    /\ Goto(t, IF due THEN "backchannel" ELSE "percent") /\ obj' = obj

\* Loop: the while test, and whether a backchannel check is due
LoopTop(t, due) ==
    /\ At(t, "top")
    /\ TaskFrame
    /\ hazards' = hazards
    /\ IF obj.Terminated THEN SenderExit(t, "flag")
       ELSE Goto(t, IF due THEN "backchannel" ELSE "percent") /\ obj' = obj

\* BackchannelCheck: one round of its loop
BackchannelCheck(t, got, late, percent) ==
    /\ At(t, "backchannel")
    /\ TaskFrame
    /\ IF obj.Terminated
       THEN Goto(t, "percent") /\ UNCHANGED <<obj, hazards>>
       ELSE /\ UsesDriver
            /\ IF got = "fail" THEN SenderExit(t, "error")
               ELSE IF got = "ack"
               THEN Goto(t, "percent") /\ obj' = [obj EXCEPT !.PercentageComplete = percent]
               ELSE IF late THEN SenderExit(t, "error")
               ELSE /\ obj' = [obj EXCEPT !.Terminated = (@ \/ got = "invalid")]
                    /\ Goto(t, "backchannel")

\* Loop: the PercentageComplete test, and whether a block is due
LoopPercent(t, due) ==
    /\ At(t, "percent")
    /\ TaskFrame
    /\ hazards' = hazards
    /\ IF obj.PercentageComplete >= 100 THEN SenderExit(t, "complete")
       ELSE Goto(t, IF due THEN "send" ELSE "top") /\ obj' = obj

\* Loop: Uplink.Send of the block and wirehair_encode of the next
LoopSend(t, sent, encoded) ==
    /\ At(t, "send")
    /\ TaskFrame
    /\ UsesDriver
    /\ IF sent /\ encoded THEN Goto(t, "top") /\ obj' = obj ELSE SenderExit(t, "error")

Received == {"fail", "none", "ack", "invalid"}

TaskStep(t) ==
    \/ \E got \in {"fail", "none", "info", "data"} : ReceiverLoop(t, got)
    \/ OfferSend(t)
    \/ \E got \in Received, late \in BOOLEAN : OfferWait(t, got, late)
    \/ \E late \in BOOLEAN : OfferTimeout(t, late)
    \/ \E ok \in BOOLEAN : LoopSetChannel(t, ok)
    \/ \E ok \in BOOLEAN : LoopFirstEncode(t, ok)
    \/ \E due \in BOOLEAN : LoopTop(t, due)
    \/ \E got \in Received, late \in BOOLEAN, percent \in Percentages :
          BackchannelCheck(t, got, late, percent)
    \/ \E due \in BOOLEAN : LoopPercent(t, due)
    \/ \E sent \in BOOLEAN, encoded \in BOOLEAN : LoopSend(t, sent, encoded)

\* The calling thread goes on with the call it is in
MainStep ==
    \/ ShutdownFlag
    \/ ShutdownJoin
    \/ ShutdownUplink
    \/ ShutdownCodec
    \/ \E res \in {"zstd", "encoder", "ok"} : InitEncoder(res)
    \/ \E plan \in LifePlans : InitUplink(plan)
    \/ InitStart
    \/ InitRelease
    \/ DestroyMembers

NextLife ==
    \/ BeginInitialize
    \/ BeginShutdown
    \/ BeginDestroy
    \/ MainStep
    \/ \E t \in 1..MaxCalls : TaskStep(t)

SpecLife == InitLife /\ [][NextLife]_vars

\* Every started std::thread that can take a step gets to take one; nothing
\* is assumed about how far the caller of Initialize and Shutdown gets.
SpecLifeFair ==
    /\ SpecLife
    /\ \A t \in 1..MaxCalls : WF_vars(TaskStep(t))

-----------------------------------------------------------------------------
(* Properties of Initialize, Shutdown and the background task *)

\* Shutdown has come to its teardown of driver and codec
TearingDown ==
    /\ main.op \in {"Shutdown", "Destroy"}
    /\ main.pc \in {"shutdown_uplink", "shutdown_codec"}

\* C11 as claimed: when Shutdown comes to shut down the driver and free the
\* codec, Terminated is set and every task started has been joined; so no task
\* calls into the driver after its shutdown, and the calling thread touches
\* neither driver nor codec while a task runs.
C11_TeardownAfterJoin ==
    /\ (TearingDown /\ tasks # << >>)
           => (obj.Terminated /\ \A t \in 1..Len(tasks) : tasks[t].joins = 1)
    /\ hazards = {}

\* C12: from wherever the tasks are, once Terminated is set every task alive
\* exits, whatever the radio delivers on the way, unless a later Initialize
\* has cleared the flag again or the process is gone.
C12_FlagEndsTask ==
    (AliveTasks # {} /\ obj.Terminated)
        ~> (AliveTasks = {} \/ ~obj.Terminated \/ aborted)

\* C12 witness: a sender's task that was waiting for the answer to its offer
\* left on the flag, and Shutdown joined it
C12_Witness ==
    /\ role = "sender"
    /\ Len(tasks) = 1
    /\ tasks[1].cause = "flag"
    /\ tasks[1].joins = 1
    /\ main.hist = <<"Initialize", "Shutdown">>

\* C13 as claimed: a task that left its loop on an error has left Terminated set.
C13_ErrorExitSetsFlag ==
    \A t \in 1..Len(tasks) :
        (tasks[t].pc = "exited" /\ tasks[t].cause = "error") => tasks[t].flag

\* C16 as claimed: at no time is more than one task of the object alive.
C16_OneTaskAtATime == Cardinality(AliveTasks) <= 1

\* The object as Shutdown leaves it
ShutDown(o) ==
    /\ o.Uplink.Serial.fd = -1
    /\ ~o.Uplink.gpio
    /\ o.Codec = "null"
    /\ role = "sender" => (o.Terminated /\ o.Thread = 0)

\* The calling thread takes a step of Shutdown
ShutdownStep ==
    /\ main.pc \in {"flag", "join", "shutdown_uplink", "shutdown_codec"}
    /\ main' # main
    /\ main'.meddled = main.meddled

\* C17: a Shutdown that no task interfered with leaves the object shut down;
\* Shutdown on an object that is shut down changes nothing, joins nothing,
\* closes nothing and frees nothing; and no task is ever joined twice.
C17_ShutdownIdempotent ==
    /\ [](\A t \in 1..Len(tasks) : tasks[t].joins <= 1)
    /\ [][(ShutdownStep /\ main.pc = "shutdown_codec" /\ ~main.meddled) => ShutDown(obj')]_vars
    /\ [][(ShutdownStep /\ ShutDown(obj)) => (obj' = obj /\ tally' = tally /\ tasks' = tasks)]_vars

\* C17 witness: a sender that ran a task was shut down twice in a row: one
\* join, one close, one free
C17_Witness ==
    /\ role = "sender"
    /\ main.op = "none"
    /\ main.hist = <<"Initialize", "Shutdown", "Shutdown">>
    /\ Len(tasks) = 1
    /\ tasks[1].joins = 1
    /\ tally = [closes |-> 1, frees |-> 1]
    /\ ShutDown(obj)

\* C18 as claimed: when the GPIO library, an open() of the serial device, the
\* readback of a configuration write or an RSSI read fails during
\* Uplink.Initialize, it returns false, the engine's Initialize returns false
\* and no task is started.
C18_InitializeFailsOnFault ==
    (boot.what # "none" /\ boot.engine # "none")
        => (~boot.ret /\ boot.engine = "false" /\ ~boot.started)

-----------------------------------------------------------------------------
(* Properties of the receiving engine *)

\* The last iteration was given a valid info packet with a changed triple
RestartedNow ==
    /\ AcceptedInfo(step)
    /\ run.accepted > 0
    /\ run.info = step.pkt.info
    /\ run.mark = step.nevents
    /\ Len(rcv.Events) > step.nevents

\* The info packet that started the attempt describes the sender's file, and
\* at least as many distinct blocks of it were handed in as the file has
EnoughBlocksFed ==
    /\ ~run.disturbed
    /\ ~compensate
    /\ ~rcv.Crashed
    /\ run.file = snd.file
    /\ run.info.file_bytes = snd.CompressedFileBytes
    /\ Cardinality(run.ids) >= BlockCount(snd.CompressedFileBytes)

\* C1 as claimed: a file whose compressed form exceeds two blocks, prepared by
\* the sender and handed to a fresh receiver as one info packet and enough
\* distinct data packets, ends in exactly one completion event, with the last
\* path component as the name and the file's bytes as the data.
C1_RoundTrip ==
    (/\ restarts = 0
     /\ run.infos = 1
     /\ run.accepted = 1
     /\ run.prior = "fresh"
     /\ snd.CompressedFileBytes > 2 * kBlockBytes
     /\ EnoughBlocksFed)
    => Completions(rcv.Events) =
           << [progress |-> <<1, 1>>, done |-> TRUE, file_name |-> snd.Filename,
               file_data |-> Files[snd.file].data] >>

\* C2 as claimed: no completion event is emitted for a transfer whose stored
\* integrity hash differs from the hash of the decompressed payload; so a
\* completed transfer has a stored hash equal to the hash of what it
\* decompressed.
C2_HashMismatchRejected ==
    Status(rcv) = "complete"
    => rcv.FileHash = IntegrityHash(wirehair_recover(rcv.Decoder, rcv.FileBytes).out.of)

\* C8 as claimed: a valid info packet with a changed triple (for a length of
\* two blocks or more), arriving while a transfer is in progress, failed or
\* complete, clears the latch, creates the decoder for the new length, stores the triple and zeroes the block count;
\* and once enough distinct blocks of the new file have been handed in, the
\* receiver has emitted its completion event.
C8_RestartThenComplete ==
    /\ (/\ RestartedNow
        /\ run.prior \in {"progress", "failed", "complete"}
        /\ BlockCount(step.pkt.info.file_bytes) >= 2
        /\ step.buffered = << >>)
       => /\ ~rcv.TransferComplete
          /\ rcv.Decoder = wirehair_decoder_create(step.pkt.info.file_bytes)
          /\ ~rcv.Decoder.null
          /\ rcv.FileBytes = step.pkt.info.file_bytes
          /\ rcv.FileHash = step.pkt.info.hash
          /\ rcv.DecompressedBytes = step.pkt.info.decompressed_bytes
          /\ rcv.FileBlockCount = 0
    /\ (/\ run.accepted > 0
        /\ run.prior \in {"progress", "failed", "complete"}
        /\ EnoughBlocksFed)
       => \E i \in (run.mark + 1)..Len(rcv.Events) : rcv.Events[i].done

\* C9 as claimed: the data packets that arrived before the first valid info
\* packet (for a length of two blocks or more) were stored as they came (id and 234 bytes), and when that info
\* packet has been handled the decoder has been given each of them, the id
\* with the 234 bytes, in arrival order, and the buffer is empty.
C9_EarlyBlocksReplayed ==
    (/\ RestartedNow
     /\ run.accepted = 1
     /\ run.prior = "fresh"
     /\ BlockCount(step.pkt.info.file_bytes) >= 2
     /\ step.buffered # << >>)
    => /\ \A i \in 1..Len(step.buffered) :
              step.buffered[i].off = 0 /\ step.buffered[i].bytes = kFileBlockBytes
       /\ Len(rcv.Decoder.rows) = Len(step.buffered)
       /\ \A i \in 1..Len(rcv.Decoder.rows) :
              /\ rcv.Decoder.rows[i].id.lo % 256 = step.buffered[i].id
              /\ rcv.Decoder.rows[i].body = step.buffered[i].body
              /\ rcv.Decoder.rows[i].off = 0
              /\ rcv.Decoder.rows[i].bytes = kFileBlockBytes
       /\ rcv.BufferedBlocks = << >>

\* What every idle reset leaves behind, and that none happens at 20 s or less
IdleResetDone ==
    /\ (step.kind = "tick" /\ step.dt > timeout_sec)
       => /\ rcv.FileBytes = 0
          /\ step.reset => (/\ rcv.FileHash = 0
                            /\ rcv.NextBlockId = U32(0, 0)
                            /\ rcv.BufferedBlocks = << >>)
    /\ (step.kind = "tick" /\ step.dt <= timeout_sec) => ~step.reset

\* The last iteration was given the first valid info packet after an idle reset
InfoAfterIdleReset == AcceptedInfo(step) /\ step.afterIdle

ZeroProgressEmitted ==
    /\ Len(rcv.Events) > step.nevents
    /\ rcv.Events[step.nevents + 1] =
           [progress |-> <<0, 1>>, done |-> FALSE, file_name |-> << >>, file_data |-> << >>]

DecoderCreatedForInfo ==
    /\ ~rcv.Decoder.null
    /\ rcv.Decoder.bytes = step.pkt.info.file_bytes
    /\ rcv.FileBytes = step.pkt.info.file_bytes
    /\ rcv.FileHash = step.pkt.info.hash
    /\ rcv.DecompressedBytes = step.pkt.info.decompressed_bytes

Delivered ==
    /\ rcv.TransferComplete
    /\ rcv.Events # << >>
    /\ rcv.Events[Len(rcv.Events)].done

\* Events of the attempt the last accepted info packet started
EventsOfRun == SubSeq(rcv.Events, run.mark + 1, Len(rcv.Events))

\* An event's done field says that OnRecv was given non-null file_name and
\* file_data; without them the name and the data are empty
EventsWellFormed ==
    \A i \in 1..Len(rcv.Events) :
        LET e == rcv.Events[i]
        IN  /\ e.done => e.progress = <<1, 1>>
            /\ ~e.done => (e.file_name = << >> /\ e.file_data = << >>)

\* An iteration that hands a data packet to OnBlock after the delivery leaves
\* the events and the decoder as they were
QuietAfterDelivery ==
    (Delivered /\ fed' = fed + 1 /\ step'.kind = "data")
        => (rcv'.Events = rcv.Events /\ rcv'.Decoder = rcv.Decoder /\ Delivered')

\* C14: every event but the completion event has null name and data; the
\* completion event has progress 1.0 and a name and data, there is at most one
\* per accepted info packet, and once it is out a data packet causes neither an
\* event nor a decoder call until an info packet with another triple is accepted.
C14_CompletionOnceThenQuiet ==
    /\ [](EventsWellFormed /\ Len(Completions(EventsOfRun)) <= 1)
    /\ [][QuietAfterDelivery]_vars

\* C14 witness: one info packet, two blocks that completed the file, and a
\* third data packet that the decoder never saw
C14_Witness ==
    /\ Delivered
    /\ step.kind = "data"
    /\ run.infos = 1
    /\ fed = 4
    /\ Len(rcv.Decoder.rows) = 2
    /\ Len(rcv.Events) = 3

\* C15 as claimed: every progress value handed to the callback lies in 0..1:
\* the block count never exceeds the total, and the total is not 0.
C15_ProgressWithinUnit ==
    \A i \in 1..Len(rcv.Events) :
        /\ rcv.Events[i].progress[2] > 0
        /\ rcv.Events[i].progress[1] >= 0
        /\ rcv.Events[i].progress[1] <= rcv.Events[i].progress[2]

\* The transfer ended in a decoder error or a failed recovery, decompression,
\* length check or header check
Failed ==
    /\ rcv.TransferComplete
    /\ ~rcv.Crashed
    /\ (rcv.Events = << >> \/ ~rcv.Events[Len(rcv.Events)].done)

\* C20 as claimed: after a failed transfer no completion event is out for it
\* and FileBytes is 0; and the next info packet for the same file (the triple
\* that started the failed attempt) starts it again with a 0.0 event.
C20_FailureResetsLength ==
    /\ Failed => (Completions(EventsOfRun) = << >> /\ rcv.FileBytes = 0)
    /\ (/\ AcceptedInfo(step)
        /\ run.prior = "failed"
        /\ step.pkt.info = run.info)
       => Len(rcv.Events) > step.nevents

\* A data packet is dispatched to a receiver that knows its file and has not
\* set the latch: OnBlock gets as far as the decoder
LiveBlock ==
    /\ step'.kind = "data"
    /\ fed' = fed + 1
    /\ ~rcv.TransferComplete
    /\ rcv.FileBytes # 0

\* The block the decoder was handed in this step
Submitted == rcv'.Decoder.rows[Len(rcv'.Decoder.rows)]

\* C21 as claimed: OnBlock, live or in a replay, advances NextBlockId by
\* ExpandFromTruncated and hands the decoder that id with the 234 bytes behind
\* the packet's id byte: the pointer at their start, the length 234.
C21_BlockSubmittedWhole ==
    /\ [](\A i \in 1..Len(rcv.Decoder.rows) :
              rcv.Decoder.rows[i].off = 0 /\ rcv.Decoder.rows[i].bytes = kFileBlockBytes)
    /\ [][LiveBlock =>
              /\ Len(rcv'.Decoder.rows) = Len(rcv.Decoder.rows) + 1
              /\ rcv'.NextBlockId = ExpandFromTruncated(rcv.NextBlockId, Submitted.body.id % 256)
              /\ Submitted.id = rcv'.NextBlockId]_vars

\* This step dispatches a data packet
DataStep == step'.kind = "data" /\ fed' = fed + 1

\* This step dispatches a valid info packet whose triple is not the stored one
ChangedInfoStep ==
    /\ AcceptedInfo(step')
    /\ fed' = fed + 1
    /\ ChangedInfo(rcv, step'.pkt.info)

\* While the latch is set a data packet changes nothing in the receiver
LatchDiscardsData == (rcv.TransferComplete /\ DataStep) => rcv' = rcv

ReplayStep == ChangedInfoStep /\ rcv.BufferedBlocks # << >>

\* C27: while OnFileInfo replays the early blocks none is appended to the
\* buffer: a file length is stored by then, so that OnBlock submits each block
\* or drops it on the latch, and the loop over the buffer comes to its end.
C27_ReplayAppendsNothing ==
    [][ReplayStep => (rcv'.FileBytes # 0 /\ ~rcv'.Crashed)]_vars

\* C28: with no file length stored the latch is clear, and a data packet that
\* comes after an idle reset and before the next info packet is buffered.
C28_NoHeaderNoLatch ==
    /\ [](rcv.FileBytes = 0 => ~rcv.TransferComplete)
    /\ [][(DataStep /\ rcv.FileBytes = 0)
              => Len(rcv'.BufferedBlocks) = Len(rcv.BufferedBlocks) + 1]_vars

\* C29: a block is submitted only to a decoder that exists and was created
\* for the stored file length, and so is a recovery.
C29_DecoderIsCurrent ==
    [][LiveBlock => (~rcv.Decoder.null /\ rcv.Decoder.bytes = rcv.FileBytes)]_vars

\* C26: every early block replayed on the first info packet goes to the
\* decoder under the id the sender encoded it with, however many were
\* buffered: each row the decoder took has its block's own id, and the id
\* submitted last, which NextBlockId keeps, is that of a buffered block.
C26_ReplayedUnderOwnId ==
    [][(ReplayStep /\ rcv'.FileBytes # 0) =>
           /\ \A i \in 1..Len(rcv'.Decoder.rows) :
                  rcv'.Decoder.rows[i].id = U32FromNat(rcv'.Decoder.rows[i].body.id)
           /\ \E i \in 1..Len(rcv.BufferedBlocks) :
                  rcv'.NextBlockId = U32FromNat(rcv.BufferedBlocks[i].body.id)]_vars

\* This step dispatches a valid info packet
InfoStep == AcceptedInfo(step') /\ fed' = fed + 1

\* C30: a valid info packet puts its block id into NextBlockId: with the
\* stored triple it changes nothing else of the receiver (decoder, counts,
\* latch, buffer, events); with a changed triple the id stands if nothing is
\* replayed, and the first replayed block is expanded from it otherwise.
C30_InfoOverwritesId ==
    [][InfoStep =>
           LET info == step'.pkt.info
           IN  /\ ~ChangedInfo(rcv, info) => rcv' = [rcv EXCEPT !.NextBlockId = info.next_block_id]
               /\ (ChangedInfo(rcv, info) /\ rcv.BufferedBlocks = << >>)
                      => rcv'.NextBlockId = info.next_block_id
               /\ (ChangedInfo(rcv, info) /\ rcv.BufferedBlocks # << >>
                        /\ rcv'.Decoder.rows # << >>)
                      => rcv'.Decoder.rows[1].id
                             = ExpandFromTruncated(info.next_block_id, rcv.BufferedBlocks[1].id)]_vars

\* C30 witness: a second info packet with the stored triple came when the
\* sender was past block 0 and NextBlockId holds the id it carried
C30_Witness ==
    /\ AcceptedInfo(step)
    /\ run.infos = 2
    /\ run.accepted = 1
    /\ step.pkt.info.next_block_id # U32(0, 0)
    /\ rcv.NextBlockId = step.pkt.info.next_block_id
    /\ loop.block_id > 0

\* C31: an info packet with compressed length 0 or decompressed length under
\* 2 leaves the whole receiver as it was: triple, NextBlockId, decoder,
\* counts, latch, buffer, and the event history.
C31_MalformedInfoIgnored == [][step'.kind = "malformed" => rcv' = rcv]_vars

\* C31 witness: a malformed info packet came to a receiver in mid-transfer
\* whose NextBlockId is not the id the packet carries
C31_Witness ==
    /\ step.kind = "malformed"
    /\ step.pkt.info.file_bytes = 0
    /\ rcv.FileBytes # 0
    /\ ~rcv.TransferComplete
    /\ rcv.Decoder.rows # << >>
    /\ rcv.NextBlockId # step.pkt.info.next_block_id

\* C32: the buffer holds blocks only while no file length is stored; with a
\* length stored a data packet leaves the buffer as it is, and an info packet
\* with a changed triple that leaves a length stored leaves the buffer empty.
C32_BufferOnlyWithoutHeader ==
    /\ [](rcv.BufferedBlocks # << >> => rcv.FileBytes = 0)
    /\ [][(DataStep /\ rcv.FileBytes # 0) => rcv'.BufferedBlocks = rcv.BufferedBlocks]_vars
    /\ [][(ChangedInfoStep /\ rcv'.FileBytes # 0) => rcv'.BufferedBlocks = << >>]_vars

\* C32 witness: early blocks were buffered and the info packet that stored
\* the header left none of them behind
C32_Witness ==
    /\ AcceptedInfo(step)
    /\ step.buffered # << >>
    /\ rcv.FileBytes # 0
    /\ rcv.BufferedBlocks = << >>

\* Task t takes a round of the wait for an acknowledgement, in MakeOffer or in
\* BackchannelCheck, and does not leave Loop in it
WaitsOn(t) ==
    /\ t \in 1..Len(tasks)
    /\ tasks[t].pc \in {"wait", "backchannel"}
    /\ tasks'[t] # tasks[t]
    /\ tasks'[t].pc # "exited"

\* C38: a packet other than the 2-byte acknowledgement that comes to the
\* sender in MakeOffer or BackchannelCheck is ignored: whatever Receive
\* hands to the callback in a round of the wait, the round leaves Terminated
\* as it was.
C38_StrayPacketIgnored ==
    [][\A t \in 1..MaxCalls : WaitsOn(t) => obj'.Terminated = obj.Terminated]_vars

\* The latest driver call wrote a frame to the port
WroteFrame == hat.ready /\ hat.last.op = "Send" /\ hat.last.wrote

\* The latest driver call read the port's input and parsed its buffer
Parsed == hat.ready /\ hat.last.op = "Receive" /\ hat.last.parsed

Logged(h, what) == \E i \in 1..Len(h.log) : h.log[i] = what

\* C33: Send writes its frame with the module's address register at
\* TransmitAddress, Receive parses with it at 0xFFFF; a call writes the
\* register only if CurrentAddress is not the address it needs; and
\* CurrentAddress is what the register holds.
C33_AddressFollowsCall ==
    /\ [](WroteFrame => hat.addr = hat.TransmitAddress)
    /\ [](Parsed => hat.addr = kMonitorAddress)
    /\ [](hat.ready => hat.CurrentAddress = hat.addr)
    /\ [][(hat'.calls = hat.calls + 1 /\ hat'.last.op \in {"Send", "Receive"}
               /\ Logged(hat', "address"))
              => hat.CurrentAddress # hat'.last.addr]_vars

\* C34: no frame is written and no input is parsed while the driver
\* records Config mode, whatever calls came before and however they ended.
C34_NoTrafficInConfigMode ==
    /\ WroteFrame => ~hat.last.inConfig
    /\ Parsed => ~hat.last.inConfig

Scanned ==
    /\ hat.last.op = "Initialize"
    /\ hat.io.cfgs >= 2 + kCheckedChannelCount

\* C39: after a scan that returned true, each checked channel holds the
\* largest RSSI read on it with the ambient bit set, and half of it as dBm,
\* no RSSI was read otherwise, and every other channel holds zero; after an
\* Initialize that returned true the module's channel register holds the
\* channel asked for and its ambient bit is clear.
C39_ScanKeepsLargest ==
    /\ Scanned =>
           /\ hat.stray = 0
           /\ \A c \in Channels :
                  /\ hat.ChannelRssiRaw[c] = hat.seen[c]
                  /\ hat.ChannelRssi[c] = HalfDbm(hat.seen[c])
                  /\ (\A i \in 1..kCheckedChannelCount : c # kCheckedChannels[i])
                         => hat.ChannelRssiRaw[c] = 0 /\ hat.ChannelRssi[c] = 0
    /\ (hat.last.op = "Initialize" /\ hat.last.ret) =>
           /\ hat.chan = hat.last.channel
           /\ hat.amb = 0

\* C39 witness: an Initialize on a checked channel returned true after a
\* scan whose largest readings came in mid-scan
C39_Witness ==
    /\ hat.last.op = "Initialize"
    /\ hat.last.ret
    /\ hat.last.channel = 32
    /\ hat.ChannelRssiRaw[16] = 201
    /\ hat.ChannelRssiRaw[64] = 204
    /\ hat.ChannelRssi[32] = 1010
    /\ hat.io.rssis = NumRssi

\* C40: where Receive gives up a read (a resync) no byte is left in the
\* port; and where it parses, no byte of its buffer was read before the
\* latest change of mode: the offset was put back to 0 since.
C40_DrainedBeforeParsing ==
    /\ (hat.ready /\ hat.last.op = "Receive" /\ Logged(hat, "resync")) => hat.last.left = 0
    /\ Parsed => hat.last.staleAtParse = 0

RECURSIVE FramedBytes(_)
FramedBytes(out) ==
    IF out = << >> THEN 0 ELSE 5 + Len(out[1]) + FramedBytes(Tail(out))

\* C36: RecvOffsetBytes stays within 0..240 and counts the bytes buffered;
\* the scan of Receive reads no byte at or beyond the number buffered; every
\* payload it hands over has 1 to 235 bytes; and what is buffered after a
\* Receive is what was buffered from the final scan position on.
C36_ReadsWithinBuffer ==
    /\ rxd.RecvOffsetBytes \in 0..kRecvBufferBytes
    /\ rxd.RecvOffsetBytes = Len(rxd.RecvBuffer)
    /\ feed.top < Len(feed.pre)
    /\ \A i \in 1..Len(feed.out) : Len(feed.out[i]) \in 1..kPacketMaxBytes
    /\ feed.start_offset \in 0..Len(feed.pre)
    /\ feed.ok => rxd.RecvBuffer = SubSeq(feed.pre, feed.start_offset + 1, Len(feed.pre))

\* C36 witness: a Receive parsed a full buffer, read its last byte and
\* handed over a payload of 235 bytes
C36_Witness ==
    /\ feed.ok
    /\ Len(feed.pre) = kRecvBufferBytes
    /\ feed.top = kRecvBufferBytes - 1
    /\ \E i \in 1..Len(feed.out) : Len(feed.out[i]) = kPacketMaxBytes
    /\ feed.start_offset = kRecvBufferBytes

\* The latest Receive parsed a full buffer
ParsedFull == feed.ok /\ Len(feed.pre) = kRecvBufferBytes

\* C37: a Receive that parses a full buffer takes at least one byte off its
\* front; the bytes a Receive takes off are the positions it skipped and the
\* frames it handed over, each with the CRC of its payload; and with bytes
\* arriving and Receive being called, a byte that has arrived is taken off
\* in the end (or the loop has stopped on a failed read).
C37_FullBufferMovesOn ==
    /\ [](ParsedFull => feed.start_offset > 0)
    /\ [](feed.start_offset = feed.skipped + FramedBytes(feed.out))
    /\ [](\A i \in 1..Len(feed.out) :
              \E at \in 0..(Len(feed.pre) - 5 - Len(feed.out[i])) :
                  SubSeq(feed.pre, at + 1, at + 5 + Len(feed.out[i])) = Frame(build, feed.out[i]))
    /\ (feed.mark > 0) ~> (feed.mark = 0 \/ rxFailed)

\* C37 witness: a Receive parsed a full buffer that began with the length
\* byte of a frame whose CRC did not match, and skipped it, with a byte
\* under watch still waiting
C37_Witness ==
    /\ ParsedFull
    /\ feed.pre[1] = kPacketMaxBytes
    /\ feed.out = << >>
    /\ feed.skipped > 0
    /\ feed.mark > 0

-----------------------------------------------------------------------------
(* Properties of the framing *)

IsPrefix(a, b) == Len(a) <= Len(b) /\ SubSeq(b, 1, Len(a)) = a

RECURSIVE TotalBytes(_)
TotalBytes(log) ==
    IF log = << >> THEN 0 ELSE Len(log[1].bytes) + TotalBytes(Tail(log))

\* Bytes the receiving host has taken out of its UART queue
BytesRead == TotalBytes(lineLog) - Len(line)

\* The payloads of the first segments of log that lie within its first k bytes
RECURSIVE PayloadsWithin(_, _)
PayloadsWithin(log, k) ==
    IF log = << >> \/ Len(log[1].bytes) > k THEN << >>
    ELSE <<log[1].payload>> \o PayloadsWithin(Tail(log), k - Len(log[1].bytes))

SegPayloads(log, kind) ==
    LET RECURSIVE P(_)
        P(l) == IF l = << >> THEN << >>
                ELSE (IF l[1].kind = kind THEN <<l[1].payload>> ELSE << >>) \o P(Tail(l))
    IN  P(log)

\* C3: when the UART input is a concatenation of frames produced by Send, read
\* in arbitrary chunks, the callback has been invoked exactly once, in order,
\* for each frame whose last byte has been read, and for nothing else.
C3_FramesDeliveredOncePerFrame ==
    (Kinds(lineLog) \subseteq {"frame"} /\ ~rxFailed)
        => delivered = PayloadsWithin(lineLog, BytesRead)

\* C3 witness: two frames delivered although some Receive call stopped mid-frame
C3_Witness ==
    /\ Kinds(lineLog) = {"frame"}
    /\ Len(lineLog) = 2
    /\ paused
    /\ line = << >>
    /\ delivered = SegPayloads(lineLog, "frame")

\* Whether some junk byte of the line starts a CRC-valid frame
JunkFormsFrame ==
    LET RECURSIVE Cat(_)
        Cat(l) == IF l = << >> THEN << >> ELSE l[1].bytes \o Cat(Tail(l))
        all == Cat(lineLog)
    IN  \E q \in 1..Len(all) :
            /\ q <= Len(lineLog) /\ lineLog[q].kind = "junk"
            /\ all[q] >= 1 /\ all[q] <= kPacketMaxBytes
            /\ q + 4 + all[q] <= Len(all)
            /\ ReadU32_LE(all, q + 1) = FastCrc32(build, SubSeq(all, q + 5, q + 4 + all[q]))

\* C4 as claimed: junk bytes, none of them starting a CRC-valid frame, then one
\* valid frame; once all of it has been read the payload was delivered exactly once.
C4_JunkThenFrameDelivered ==
    ( /\ Len(lineLog) >= 2
      /\ \A i \in 1..Len(lineLog) :
            lineLog[i].kind = IF i < Len(lineLog) THEN "junk" ELSE "frame"
      /\ ~JunkFormsFrame
      /\ ~rxFailed
      /\ line = << >> )
        => delivered = << lineLog[Len(lineLog)].payload >>

\* C5 as claimed: a frame with one payload byte altered is not delivered, Receive
\* returns true, and the valid frame after it is delivered once all is read.
C5_CorruptSkippedLaterDelivered ==
    ( /\ Len(lineLog) = 2
      /\ lineLog[1].kind = "bad"
      /\ lineLog[2].kind = "frame"
      /\ ~rxFailed
      /\ line = << >> )
        => /\ lastRecv.ok
           /\ delivered = << lineLog[2].payload >>

\* C6: the buffer Send hands to Serial.Write is the length byte L, the CRC of
\* the payload as four little-endian bytes, then the L payload bytes.
C6_SendFrameLayout ==
    lastSend.frame # << >>
        => LET f == lastSend.frame
               L == Len(lastSend.data)
           IN  /\ L >= 1 /\ L <= kPacketMaxBytes
               /\ Len(f) = L + 5
               /\ f[1] = L
               /\ ReadU32_LE(f, 2) = FastCrc32(build, lastSend.data)
               /\ SubSeq(f, 6, Len(f)) = lastSend.data
               /\ (build = "fallback" /\ lastSend.data = <<0>>)
                     => f = <<1, 141, 239, 2, 210, 0>>
               /\ (build = "fallback" /\ lastSend.data = FullSized)
                     => SubSeq(f, 1, 6) = <<235, 75, 101, 196, 215, 7>>

\* C6 witness: a full-size data packet was framed and written
C6_Witness ==
    /\ lastSend.ok
    /\ Len(lastSend.data) = kPacketMaxBytes
    /\ Len(lastSend.frame) = kRecvBufferBytes

=============================================================================
